---------------------------- MODULE Spec2Model ----------------------------
(***************************************************************************)
(* Model of the blog API's delayed-publication scheduler                   *)
(* (service.StartPostScheduler), the post repository it polls              *)
(* (repository.PostRepo) and the post service whose calls run concurrently *)
(* with it (service.PostService).                                          *)
(*                                                                         *)
(* Time is a small integer clock.  ZeroTime stands for Go's zero           *)
(* time.Time; the clock starts after it.  Rows are keyed by their          *)
(* auto-increment id; ids grow in creation order, so "ORDER BY created_at  *)
(* DESC" is modelled as id descending.  The updated_at column is written   *)
(* by Update and read by nothing, and is not part of the state.            *)
(***************************************************************************)
EXTENDS Integers, Sequences, FiniteSets, TLC

\* ------------------------------------------------------------- bounds ----
\* Largest clock value the model explores.
MaxTime == 3
\* Largest number of rows ever inserted into the posts table.
MaxPosts == 1

\* Largest number of rows inserted in the runs that explore a backlog.
MaxBacklog == 4

\* Largest number of rows inserted in the runs in which two users call the
\* post service.
MaxOwned == 2

\* Largest number of users registered and of refresh token values generated.
MaxUsers == 2
MaxTokens == 3
\* The ticks of a run that are counted.
MaxTicks == 3
\* Largest value of the Unix clock in the runs of the throttler.
MaxSeconds == 4

\* -------------------------------------------------- program constants ----
\* The source has 5 workers, a page of 100 posts, a warning threshold of 500
\* jobs and a queue of 1000 jobs.  The values are scaled down and keep the
\* order of the source's: workers < page < threshold < queue size, and the
\* room the source leaves between the threshold and the queue size: a page
\* fits in an empty queue below the threshold, a queue over the threshold
\* still takes a job without blocking, and the full queue is reachable.
SchedulerWorkers == 2
SchedulerBufferSize == 6
SchedulerMaxJobQueueSize == 4
PageLimit == 3

\* ------------------------------------------------------------ domains ----
\* Nil is a nil pointer; the values of users, titles and contents are the
\* inputs drawn by the service actions.  The scheduler treats title and
\* content alike, so one content value is explored beside two titles.
Nil == -1
NilStr == "<nil>"
ZeroTime == 0
Times == 1..MaxTime
Seconds == 1..MaxSeconds
Users == {1}
Titles == {"t1", "t2"}
Contents == {"c1"}
Workers == 1..SchedulerWorkers
PostIds == 1..(IF MaxBacklog > MaxPosts THEN MaxBacklog ELSE MaxPosts)

NoJob == [id |-> 0]
NoCall == [op |-> "none", id |-> 0, user |-> 0, err |-> "ok"]

\* The request goroutines that run UserService calls concurrently, and the
\* state of one that runs no call.
Requests == {1, 2}
Idle == [pc |-> "idle", op |-> "", email |-> "", username |-> "",
         password |-> << >>, hash |-> << >>, value |-> 0, user |-> 0,
         expiresAt |-> 0, issued |-> 0]

\* The state of a request goroutine that runs no PostService call.
NoPostCall == [pc |-> "idle", id |-> 0, user |-> 0, post |-> NoJob,
               hasPublishAt |-> FALSE]

\* The state of a request goroutine that runs no CommentService call.
NoComment == [pc |-> "idle", id |-> 0, user |-> 0, post |-> 0,
              author |-> 0, content |-> ""]

\* The client ids (addresses) the throttler sees.
Clients == {1, 2}

VARIABLES
    now,          \* time.Now()
    seq,          \* last id handed out by the posts table
    posts,        \* the posts table: id -> row
    cancelled,    \* ctx.Done() is closed
    tickPending,  \* a tick is buffered in ticker.C
    jobs,         \* the buffered contents of the jobs channel
    closed,       \* close(jobs) has run
    pollPc,       \* position of the poll loop
    batch,        \* the page fetched by the current tick (posts)
    idx,          \* index of the range loop over batch
    wpc,          \* position of each worker
    wjob,         \* the post a worker holds
    hist,         \* history: the outcomes of the workers' updates, per post id
    ret,          \* history: the last call observed and the error it returned
    mainDone,     \* main has returned (the process has exited)
    users,        \* the users table: id -> [email, username, passwordHash]
    tokens,       \* the refresh tokens table: value -> [user, expiresAt]
    tokSeq,       \* number of refresh token values generated so far
    acall,        \* per request goroutine: the UserService call in progress
    pwcfg,        \* the PasswordConfig the PasswordManager was built with
    comments,     \* the comments table: id -> [content, post, author]
    cseq,         \* last id handed out by the comments table
    ccall,        \* per request goroutine: the CommentService call in progress
    zset,         \* Redis: per client id, the members of its sorted set
    zexp,         \* Redis: per client id, the time its key expires (Nil: no key)
    granted,      \* history: per client id and second, the calls Allow let pass
    pcall,        \* per request goroutine: the PostService call in progress
    ticks,        \* history: the ticks the ticker has delivered, up to MaxTicks
    osExit        \* os.Exit(1) has run (the process has exited)

\* The tables of the user service and its calls in progress.
authVars == <<users, tokens, tokSeq, acall, pwcfg>>

\* The comments table and the CommentService calls in progress.
commentVars == <<comments, cseq, ccall>>

\* The throttler's Redis keys and the record of the calls it let pass.
throttleVars == <<zset, zexp, granted>>

\* The state outside the posts table and the scheduler.
sideVars == <<authVars, commentVars, throttleVars, pcall, osExit>>

\* The posts table, the scheduler and main.
coreVars == <<seq, posts, cancelled, tickPending, jobs, closed, pollPc, batch,
              idx, wpc, wjob, hist, mainDone, ticks, pcall, osExit>>

vars == <<now, seq, posts, cancelled, tickPending, jobs, closed,
          pollPc, batch, idx, wpc, wjob, hist, ret, mainDone, ticks, sideVars>>

schedVars == <<cancelled, tickPending, jobs, closed, pollPc, batch, idx, wpc, wjob, hist, ret, mainDone, ticks, sideVars>>

\* ----------------------------------------------------------- time --------
\* t.After(u)
After(t, u) == t > u

\* t.IsZero()
IsZero(t) == t = ZeroTime

\* --------------------------------------------------------- repository ----
\* PostFilter: a field that is nil is absent from the record's "has" flags.
NoFilter == [hasAuthor |-> FALSE, author |-> 0,
             hasPublished |-> FALSE, published |-> FALSE,
             hasDue |-> FALSE, dueBefore |-> 0]

\* WHERE clauses added by applyFilters; "publish_at <= ?" is never true of NULL.
applyFilters(row, f) ==
    /\ (f.hasAuthor => row.author = f.author)
    /\ (f.hasPublished => row.published = f.published)
    /\ (f.hasDue => (row.publishAt # Nil /\ row.publishAt <= f.dueBefore))

OrderDesc(S) ==
    [k \in 1..Cardinality(S) |->
        CHOOSE x \in S : Cardinality({y \in S : y > x}) = k - 1]

\* The fetched copy of a row (*model.Post).
Fetched(id) ==
    [id |-> id, title |-> posts[id].title, content |-> posts[id].content,
     publishAt |-> posts[id].publishAt, published |-> posts[id].published]

\* A query that ignores LIMIT.
GetPostsUnlimited(f, limit, offset) ==
    LET ids == OrderDesc({i \in DOMAIN posts : applyFilters(posts[i], f)})
        skipped == IF offset > 0
                   THEN SubSeq(ids, offset + 1, Len(ids))
                   ELSE ids
    IN [k \in 1..Len(skipped) |-> Fetched(skipped[k])]

\* PostRepo.GetPosts: filter, ORDER BY created_at DESC, LIMIT, OFFSET.
GetPosts(f, limit, offset) ==
    LET ids == OrderDesc({i \in DOMAIN posts : applyFilters(posts[i], f)})
        skipped == IF offset > 0
                   THEN SubSeq(ids, offset + 1, Len(ids))
                   ELSE ids
        page == IF limit > 0 /\ Len(skipped) > limit
                THEN SubSeq(skipped, 1, limit)
                ELSE skipped
    IN [k \in 1..Len(page) |-> Fetched(page[k])]

\* PostRepo.GetPost: the row with this id that passes the filter, if any.
GetPostFound(id, f) == id \in DOMAIN posts /\ applyFilters(posts[id], f)

\* An update that writes the row back when it is missing (an upsert).
RepoUpserted(p) ==
    IF p.id \in DOMAIN posts
    THEN [posts EXCEPT ![p.id].title = p.title,
                       ![p.id].content = p.content,
                       ![p.id].publishAt = p.publishAt,
                       ![p.id].published = p.published]
    ELSE posts @@ (p.id :>
             [title |-> p.title, content |-> p.content, author |-> 1,
              publishAt |-> p.publishAt, published |-> p.published])

\* PostRepo.Update: UPDATE ... SET title, content, publish_at, published
\* WHERE id = ?; RowsAffected = 0 is ErrPostNotFound.
RepoUpdated(p) ==
    IF p.id \in DOMAIN posts
    THEN [posts EXCEPT ![p.id].title = p.title,
                       ![p.id].content = p.content,
                       ![p.id].publishAt = p.publishAt,
                       ![p.id].published = p.published]
    ELSE posts

\* The error PostRepo.Update returns.
UpdateErr(p, dbOk) ==
    IF ~dbOk THEN "ErrDatabase"
    ELSE IF p.id \notin DOMAIN posts THEN "ErrPostNotFound"
    ELSE "ok"

\* ------------------------------------------------------ initial state ----
\* PasswordConfig as PasswordConfig.Setup fills it by default, the one main
\* runs with, and as the tests of the user service and of the handlers
\* build it.
DefaultPasswordConfig ==
    [MinLength |-> 6, CaseShiftRequired |-> TRUE, DigitsRequired |-> TRUE,
     SymbolsRequired |-> TRUE]
TestPasswordConfig ==
    [MinLength |-> 6, CaseShiftRequired |-> FALSE, DigitsRequired |-> FALSE,
     SymbolsRequired |-> FALSE]
PasswordConfigs == {DefaultPasswordConfig, TestPasswordConfig}

\* The state after construction, apart from the password configuration.
Constructed ==
    /\ now = 1
    /\ seq = 0
    /\ posts = << >>
    /\ cancelled = FALSE
    /\ tickPending = FALSE
    /\ jobs = << >>
    /\ closed = FALSE
    /\ pollPc = "select"
    /\ batch = << >>
    /\ idx = 1
    /\ wpc = [w \in Workers |-> "select"]
    /\ wjob = [w \in Workers |-> NoJob]
    /\ hist = [i \in PostIds |-> "none"]
    /\ ret = NoCall
    /\ mainDone = FALSE
    /\ users = << >>
    /\ tokens = << >>
    /\ tokSeq = 0
    /\ acall = [p \in Requests |-> Idle]
    /\ comments = << >>
    /\ cseq = 0
    /\ ccall = [p \in Requests |-> NoComment]
    /\ zset = [c \in Clients |-> {}]
    /\ zexp = [c \in Clients |-> Nil]
    /\ granted = [c \in Clients |-> [t \in Seconds |-> 0]]
    /\ pcall = [p \in Requests |-> NoPostCall]
    /\ ticks = 0
    /\ osExit = FALSE

\* main builds the PasswordManager with the default configuration.
Init == Constructed /\ pwcfg = DefaultPasswordConfig

\* -------------------------------------------------------- environment ----
\* The wall clock advances.
AdvanceTime ==
    /\ now < MaxTime
    /\ now' = now + 1
    /\ UNCHANGED <<seq, posts>>
    /\ UNCHANGED schedVars

\* The ticker delivers a tick; ticker.C holds one tick, further ones are
\* dropped.  The ticks of a run are counted up to MaxTicks.
Tick ==
    /\ pollPc # "done"
    /\ ~tickPending
    /\ ticks < MaxTicks
    /\ tickPending' = TRUE
    /\ ticks' = ticks + 1
    /\ UNCHANGED <<now, seq, posts, cancelled, jobs, closed, pollPc, batch, idx, wpc, wjob, hist, ret, mainDone, sideVars>>

\* The ticks after the first MaxTicks, in runs where the ticker never stops.
TickMore ==
    /\ pollPc # "done"
    /\ ~tickPending
    /\ ticks = MaxTicks
    /\ tickPending' = TRUE
    /\ UNCHANGED <<now, seq, posts, cancelled, jobs, closed, pollPc, batch, idx, wpc, wjob, hist, ret, mainDone, ticks, sideVars>>

\* main calls schedulerCancel().
Cancel ==
    /\ ~cancelled
    /\ cancelled' = TRUE
    /\ UNCHANGED <<now, seq, posts, tickPending, jobs, closed, pollPc, batch, idx, wpc, wjob, hist, ret, mainDone, ticks, sideVars>>

\* ---------------------------------------------------------- poll loop ----
\* The due-query with "publish_at < ?" in place of "publish_at <= ?".
DueFilterStrict(t) ==
    [hasAuthor |-> FALSE, author |-> 0,
     hasPublished |-> TRUE, published |-> FALSE,
     hasDue |-> TRUE, dueBefore |-> t - 1]

\* The filter of the scheduler's due-query.
DueFilter(t) ==
    [NoFilter EXCEPT !.hasPublished = TRUE, !.published = FALSE,
                     !.hasDue = TRUE, !.dueBefore = t]

\* case <-ticker.C: fetch the due page; on error continue, else start PushJobs.
PollTick(dbOk) ==
    /\ pollPc = "select"
    /\ tickPending
    /\ tickPending' = FALSE
    /\ IF dbOk /\ GetPosts(DueFilter(now), PageLimit, 0) # << >>
       THEN /\ batch' = GetPosts(DueFilter(now), PageLimit, 0)
            /\ idx' = 1
            /\ pollPc' = "push"
       ELSE UNCHANGED <<batch, idx, pollPc>>
    /\ UNCHANGED <<now, seq, posts, cancelled, jobs, closed, wpc, wjob, hist, ret, mainDone, ticks, sideVars>>

\* An enqueue that drops the post when the channel is full.
PushSendDropping ==
    /\ pollPc = "push"
    /\ jobs' = IF Len(jobs) < SchedulerBufferSize
               THEN Append(jobs, batch[idx])
               ELSE jobs
    /\ IF idx < Len(batch)
       THEN /\ idx' = idx + 1
            /\ UNCHANGED <<batch, pollPc>>
       ELSE /\ idx' = 1
            /\ batch' = << >>
            /\ pollPc' = "select"
    /\ UNCHANGED <<now, seq, posts, cancelled, tickPending, closed, wpc, wjob, hist, ret, mainDone, ticks, sideVars>>

\* An enqueue in which every iteration sends the page's last post (the range
\* variable shared by all iterations).
PushSendAliased ==
    /\ pollPc = "push"
    /\ Len(jobs) < SchedulerBufferSize
    /\ jobs' = Append(jobs, batch[Len(batch)])
    /\ IF idx < Len(batch)
       THEN /\ idx' = idx + 1
            /\ UNCHANGED <<batch, pollPc>>
       ELSE /\ idx' = 1
            /\ batch' = << >>
            /\ pollPc' = "select"
    /\ UNCHANGED <<now, seq, posts, cancelled, tickPending, closed, wpc, wjob, hist, ret, mainDone, ticks, sideVars>>

\* case jobs <- post: possible only while the channel has room.
PushSend ==
    /\ pollPc = "push"
    /\ Len(jobs) < SchedulerBufferSize
    /\ jobs' = Append(jobs, batch[idx])
    /\ IF idx < Len(batch)
       THEN /\ idx' = idx + 1
            /\ UNCHANGED <<batch, pollPc>>
       ELSE /\ idx' = 1
            /\ batch' = << >>
            /\ pollPc' = "select"
    /\ UNCHANGED <<now, seq, posts, cancelled, tickPending, closed, wpc, wjob, hist, ret, mainDone, ticks, sideVars>>

\* An enqueue that does not select on ctx.Done().
PushNoCancel == FALSE /\ UNCHANGED vars

\* A ctx.Done() case in PushJobs that closes the channel and goes on with
\* the range loop.
PushCancelClosing ==
    /\ pollPc = "push"
    /\ cancelled
    /\ closed' = TRUE
    /\ UNCHANGED <<now, seq, posts, cancelled, tickPending, jobs, pollPc, batch, idx, wpc, wjob, hist, ret, mainDone, ticks, sideVars>>

\* case <-ctx.Done(): break PushJobs.
PushCancel ==
    /\ pollPc = "push"
    /\ cancelled
    /\ idx' = 1
    /\ batch' = << >>
    /\ pollPc' = "select"
    /\ UNCHANGED <<now, seq, posts, cancelled, tickPending, jobs, closed, wpc, wjob, hist, ret, mainDone, ticks, sideVars>>

\* case <-ctx.Done(): close(jobs), then wg.Wait().
PollShutdown ==
    /\ pollPc = "select"
    /\ cancelled
    /\ closed' = TRUE
    /\ pollPc' = "wait"
    /\ UNCHANGED <<now, seq, posts, cancelled, tickPending, jobs, batch, idx, wpc, wjob, hist, ret, mainDone, ticks, sideVars>>

\* A return that does not wait for the workers.
WaitDoneNoJoin == TRUE

\* wg.Wait() returns once every worker has called wg.Done(); then return.
WaitDone == \A w \in Workers : wpc[w] = "exited"

PollReturn ==
    /\ pollPc = "wait"
    /\ WaitDone
    /\ pollPc' = "done"
    /\ UNCHANGED <<now, seq, posts, cancelled, tickPending, jobs, closed, batch, idx, wpc, wjob, hist, ret, mainDone, ticks, sideVars>>

\* ------------------------------------------------------------ workers ----
\* case post, ok := <-jobs with ok: post.Published = true.
WorkerRecv(w) ==
    /\ wpc[w] = "select"
    /\ jobs # << >>
    /\ wjob' = [wjob EXCEPT ![w] = [Head(jobs) EXCEPT !.published = TRUE]]
    /\ jobs' = Tail(jobs)
    /\ wpc' = [wpc EXCEPT ![w] = "update"]
    /\ UNCHANGED <<now, seq, posts, cancelled, tickPending, closed, pollPc, batch, idx, hist, ret, mainDone, ticks, sideVars>>

\* case post, ok := <-jobs with !ok: the channel is closed and empty.
WorkerClosed(w) ==
    /\ wpc[w] = "select"
    /\ closed
    /\ jobs = << >>
    /\ wpc' = [wpc EXCEPT ![w] = "exited"]
    /\ UNCHANGED <<now, seq, posts, cancelled, tickPending, jobs, closed, pollPc, batch, idx, wjob, hist, ret, mainDone, ticks, sideVars>>

\* case <-ctx.Done(): return.
WorkerCancel(w) ==
    /\ wpc[w] = "select"
    /\ cancelled
    /\ wpc' = [wpc EXCEPT ![w] = "exited"]
    /\ UNCHANGED <<now, seq, posts, cancelled, tickPending, jobs, closed, pollPc, batch, idx, wjob, hist, ret, mainDone, ticks, sideVars>>

\* repo.Update(context.Background(), post); the result is only logged.
WorkerUpdate(w, dbOk) ==
    /\ wpc[w] = "update"
    /\ posts' = IF dbOk THEN RepoUpdated(wjob[w]) ELSE posts
    /\ wpc' = [wpc EXCEPT ![w] = "select"]
    /\ wjob' = [wjob EXCEPT ![w] = NoJob]
    /\ hist' = [hist EXCEPT ![wjob[w].id] =
                   IF UpdateErr(wjob[w], dbOk) # "ok" THEN "err"
                   ELSE IF hist[wjob[w].id] \in {"err", "healed"} THEN "healed"
                   ELSE "ok"]
    /\ UNCHANGED <<now, seq, cancelled, tickPending, jobs, closed, pollPc, batch, idx, ret, mainDone, ticks, sideVars>>

\* ------------------------------------------------------- post service ----
\* A publish rule that also delays a post whose publishAt is the current time.
CreatePublishedStrict(pa) == pa = Nil \/ IsZero(pa) \/ pa < now

\* The publish rule of PostService.Create.
CreatePublished(pa) == pa = Nil \/ IsZero(pa) \/ ~After(pa, now)

\* PostService.Create: the row is inserted with the next id.
Create(u, t, c, pa) ==
    /\ seq' = seq + 1
    /\ posts' = posts @@ ((seq + 1) :>
           [title |-> t, content |-> c, author |-> u,
            publishAt |-> pa, published |-> CreatePublished(pa)])
    /\ UNCHANGED now
    /\ UNCHANGED schedVars

\* A lookup without the owner check.
OwnerErrNoCheck(id, u) ==
    IF ~GetPostFound(id, NoFilter) THEN "ErrPostNotFound" ELSE "ok"

\* checkPostOwner after GetPost(id, nil).
OwnerErr(id, u) ==
    IF ~GetPostFound(id, NoFilter) THEN "ErrPostNotFound"
    ELSE IF posts[id].author # u THEN "ErrForbidden"
    ELSE "ok"

\* The post PostService.Update builds from the row it read and the request;
\* a nil request field is Nil (NilStr for a string).
UpdatePost(id, rt, rc, rpa) ==
    LET p == Fetched(id)
        p1 == IF rt # NilStr /\ rt # p.title THEN [p EXCEPT !.title = rt] ELSE p
        p2 == IF rc # NilStr /\ rc # p1.content THEN [p1 EXCEPT !.content = rc] ELSE p1
    IN IF rpa # Nil
       THEN [p2 EXCEPT !.publishAt = rpa, !.published = ~After(rpa, now)]
       ELSE p2

\* The "updated" flag of PostService.Update.
UpdateChanges(id, rt, rc, rpa) ==
    \/ (rt # NilStr /\ rt # posts[id].title)
    \/ (rc # NilStr /\ rc # posts[id].content)
    \/ rpa # Nil

\* Everything but the posts table, the PostService calls in progress and the
\* record of the last call.
callFrame == <<now, seq, cancelled, tickPending, jobs, closed, pollPc, batch,
               idx, wpc, wjob, hist, mainDone, ticks, authVars, commentVars,
               throttleVars, osExit>>

\* PostService.Update, first part: postRepo.GetPost(id, nil), checkPostOwner
\* and the building of the post from the row read.  The call goes on to
\* postRepo.Update when the caller owns the post and the request changes
\* it; the post it will write is the copy it holds.
UpdateGet(p, id, u, rt, rc, rpa) ==
    /\ pcall[p].pc = "idle"
    /\ OwnerErr(id, u) = "ok"
    /\ UpdateChanges(id, rt, rc, rpa)
    /\ pcall' = [pcall EXCEPT ![p] =
            [pc |-> "update", id |-> id, user |-> u,
             post |-> UpdatePost(id, rt, rc, rpa),
             hasPublishAt |-> (rpa # Nil)]]
    /\ UNCHANGED <<posts, ret, callFrame>>

\* PostService.Update, second part: postRepo.Update of the copy built in the
\* first part, whatever the row holds by now.
StoredByUpdate(p) == RepoUpdated(pcall[p].post)

UpdateStore(p, dbOk) ==
    /\ pcall[p].pc = "update"
    /\ posts' = IF dbOk THEN StoredByUpdate(p) ELSE posts
    /\ pcall' = [pcall EXCEPT ![p] = NoPostCall]
    /\ UNCHANGED <<ret, callFrame>>

\* PostService.Delete, first part: postRepo.GetPost(id, nil), checkPostOwner.
DeleteGet(p, id, u) ==
    /\ pcall[p].pc = "idle"
    /\ OwnerErr(id, u) = "ok"
    /\ pcall' = [pcall EXCEPT ![p] =
            [NoPostCall EXCEPT !.pc = "delete", !.id = id, !.user = u]]
    /\ UNCHANGED <<posts, ret, callFrame>>

\* PostRepo.Delete: DELETE ... WHERE id = ?.
RepoDeleted(id) == [i \in DOMAIN posts \ {id} |-> posts[i]]

\* The error PostRepo.Delete returns: RowsAffected = 0 is ErrPostNotFound.
DeleteErr(id, dbOk) ==
    IF ~dbOk THEN "ErrDatabase"
    ELSE IF id \notin DOMAIN posts THEN "ErrPostNotFound"
    ELSE "ok"

\* PostService.Delete, second part: postRepo.Delete.
DeleteStore(p, dbOk) ==
    /\ pcall[p].pc = "delete"
    /\ posts' = IF dbOk THEN RepoDeleted(pcall[p].id) ELSE posts
    /\ pcall' = [pcall EXCEPT ![p] = NoPostCall]
    /\ UNCHANGED <<ret, callFrame>>

\* ------------------------------------------------------ specification ----
\* The request goroutines that call Update and Delete beside the scheduler:
\* one call is in flight at a time.
PostRequests == {1}

\* The update requests explored beside the scheduler: one field per request.
UpdateRequests ==
    {<<t, NilStr, Nil>> : t \in Titles}
      \cup {<<NilStr, c, Nil>> : c \in Contents}
      \cup {<<NilStr, NilStr, pa>> : pa \in Times}

\* The scheduler's goroutines; repository calls may fail.
Scheduler ==
    \/ \E dbOk \in BOOLEAN : PollTick(dbOk)
    \/ PushSend
    \/ PushCancel
    \/ PollShutdown
    \/ PollReturn
    \/ \E w \in Workers : WorkerRecv(w)
    \/ \E w \in Workers : WorkerClosed(w)
    \/ \E w \in Workers : WorkerCancel(w)
    \/ \E w \in Workers, dbOk \in BOOLEAN : WorkerUpdate(w, dbOk)

\* Requests of the API's users, served concurrently with the scheduler.
Service ==
    \/ /\ seq < MaxPosts
       /\ \E u \in Users, t \in Titles, c \in Contents, pa \in {Nil} \cup Times :
              Create(u, t, c, pa)
    \/ \E p \in PostRequests, id \in PostIds, u \in Users, r \in UpdateRequests :
           UpdateGet(p, id, u, r[1], r[2], r[3])
    \/ \E p \in PostRequests, dbOk \in BOOLEAN : UpdateStore(p, dbOk)
    \/ \E p \in PostRequests, id \in PostIds, u \in Users : DeleteGet(p, id, u)
    \/ \E p \in PostRequests, dbOk \in BOOLEAN : DeleteStore(p, dbOk)

Next ==
    \/ AdvanceTime
    \/ Tick
    \/ Cancel
    \/ Scheduler
    \/ Service

Spec == Init /\ [][Next]_vars

\* The update requests of the runs without cancellation: one that carries a
\* title alone, one that reschedules the post to the latest time.
LiveRequests == {<<"t2", NilStr, Nil>>, <<NilStr, NilStr, MaxTime>>}

\* A run in which the context is never cancelled, ticks keep occurring,
\* no post is deleted and every GetPosts and Update call succeeds.
LiveNext ==
    \/ AdvanceTime
    \/ Tick
    \/ TickMore
    \/ PollTick(TRUE)
    \/ PushSend
    \/ \E w \in Workers : WorkerRecv(w)
    \/ \E w \in Workers : WorkerUpdate(w, TRUE)
    \/ /\ seq < MaxPosts
       /\ \E pa \in {Nil} \cup Times : Create(1, "t1", "c1", pa)
    \/ \E p \in PostRequests, r \in LiveRequests :
           UpdateGet(p, 1, 1, r[1], r[2], r[3])
    \/ \E p \in PostRequests : UpdateStore(p, TRUE)

LiveFairness ==
    /\ WF_vars(AdvanceTime)
    /\ WF_vars(Tick \/ TickMore)
    /\ WF_vars(PollTick(TRUE))
    /\ WF_vars(PushSend)
    /\ \A w \in Workers :
          /\ WF_vars(WorkerRecv(w))
          /\ WF_vars(WorkerUpdate(w, TRUE))

LiveSpec == Init /\ [][LiveNext]_vars /\ LiveFairness

\* A backlog of scheduled posts: users only create posts, each with a
\* publishAt the clock reaches; repository calls succeed, the scheduler runs
\* and may be cancelled.
QueueNext ==
    \/ AdvanceTime
    \/ Tick
    \/ Cancel
    \/ PollTick(TRUE)
    \/ PushSend
    \/ PushCancel
    \/ PollShutdown
    \/ PollReturn
    \/ \E w \in Workers : WorkerRecv(w)
    \/ \E w \in Workers : WorkerClosed(w)
    \/ \E w \in Workers : WorkerCancel(w)
    \/ \E w \in Workers : WorkerUpdate(w, TRUE)
    \/ /\ seq < MaxBacklog
       /\ Create(1, "t1", "c1", MaxTime - 1)

QueueFairness ==
    /\ WF_vars(PushSend \/ PushCancel)
    /\ SF_vars(PollShutdown)
    /\ WF_vars(PollReturn)
    /\ \A w \in Workers :
          /\ WF_vars(WorkerRecv(w) \/ WorkerClosed(w) \/ WorkerCancel(w))
          /\ WF_vars(WorkerUpdate(w, TRUE))

QueueSpec == Init /\ [][QueueNext]_vars /\ QueueFairness

\* ------------------------------------------------------------- steps -----
\* A step in which worker w's repo.Update returns.
WorkerUpdateStep(w) == wpc[w] = "update" /\ wpc'[w] = "select"

\* A step in which the poll loop takes a tick and runs the due-query.
FetchStep == pollPc = "select" /\ tickPending /\ ~tickPending'

\* A step in which the poll loop enqueues a job.
SendStep == pollPc = "push" /\ Len(jobs') = Len(jobs) + 1

\* The post is stored, unpublished, and its publishAt has passed.
Due(i) ==
    /\ i \in DOMAIN posts
    /\ ~posts[i].published
    /\ posts[i].publishAt # Nil
    /\ ~After(posts[i].publishAt, now)

\* ------------------------------------------------------------- claims ----
\* C2: graceful shutdown drains the queue: when StartPostScheduler has
\* returned, no job is left unprocessed in the job queue.
C2_DrainBeforeReturn == pollPc = "done" => jobs = << >>

\* C3: once the cancellation signal has been raised the poll loop runs no
\* further due-query, so that the only enqueue still possible is the one
\* that was in progress when the signal was raised.
C3_NoDispatchAfterCancel == [][cancelled => ~FetchStep]_vars

\* C4: StartPostScheduler returns only after every worker has exited; no
\* worker is in, or can still start, a repo.Update once it has returned, and
\* a worker never exits while it holds a post whose update has not returned.
C4_JoinBeforeReturn ==
    /\ pollPc = "done" => \A w \in Workers : wpc[w] = "exited"
    /\ \A w \in Workers : wpc[w] = "exited" => wjob[w] = NoJob

\* The poll loop waits in wg.Wait() for a worker whose update is in flight
\* after cancellation.
C4_Witness ==
    /\ cancelled
    /\ pollPc = "wait"
    /\ \E w \in Workers : wpc[w] = "update"
    /\ \E w \in Workers : wpc[w] = "exited"

\* C7: no step of the scheduler changes a stored field of a post other than
\* published: the fetch and the enqueue change no row, and a worker's
\* repo.Update leaves every row's title, content and publishAt as stored
\* immediately before it.
C7_SchedulerFrame ==
    [][/\ (FetchStep \/ SendStep) => posts' = posts
       /\ \A w \in Workers : WorkerUpdateStep(w) =>
            /\ DOMAIN posts' = DOMAIN posts
            /\ \A i \in DOMAIN posts :
                 /\ posts'[i].title = posts[i].title
                 /\ posts'[i].content = posts[i].content
                 /\ posts'[i].publishAt = posts[i].publishAt
                 /\ posts'[i].author = posts[i].author]_vars

\* C8: a post whose stored publishAt is later than the current time is not
\* a job in the queue and is unpublished, and every job in the queue was
\* fetched unpublished with publishAt at or before the time of its fetch.
C8_NotDueUntouched ==
    \A k \in 1..Len(jobs) :
        /\ ~jobs[k].published
        /\ jobs[k].publishAt # Nil /\ ~After(jobs[k].publishAt, now)
        /\ jobs[k].id \in DOMAIN posts =>
              ~After(posts[jobs[k].id].publishAt, now)

\* C9: whenever a worker's repo.Update turns a post's stored published flag
\* to true, the publishAt stored for that post is not after the current time.
C9_PublishOnlyWhenDue ==
    [][\A w \in Workers :
          (/\ WorkerUpdateStep(w)
           /\ wjob[w].id \in DOMAIN posts
           /\ ~posts[wjob[w].id].published
           /\ posts'[wjob[w].id].published)
          => ~After(posts[wjob[w].id].publishAt, now)]_vars

C5_Termination ==
    cancelled ~> (pollPc = "done" /\ \A w \in Workers : wpc[w] = "exited")

\* Cancellation finds the poll loop blocked on a full queue with no worker
\* left to receive, and elsewhere finds the workers idle on an empty queue.
C5_Witness ==
    /\ cancelled
    /\ pollPc = "push"
    /\ Len(jobs) = SchedulerBufferSize
    /\ \A w \in Workers : wpc[w] = "exited"

\* A step in which the poll loop leaves PushJobs.
LeavePushStep == pollPc = "push" /\ pollPc' # "push"

\* C6: while the context is not cancelled the poll loop enqueues every post
\* of the fetched page, in the page's order and without skipping one; on a
\* full queue it waits; a buffered job leaves the queue only by being
\* received, from the head, by a worker, and every buffered job is received.
C6_BackpressureNoLoss ==
    /\ [][/\ SendStep =>
              /\ jobs' = Append(jobs, batch[idx])
              /\ idx < Len(batch) => (idx' = idx + 1 /\ batch' = batch)
          /\ (pollPc = "push" /\ (idx' # idx \/ batch' # batch)) => SendStep \/ cancelled
          /\ (LeavePushStep /\ ~cancelled) => (SendStep /\ idx = Len(batch))
          /\ Len(jobs') < Len(jobs) =>
               \E w \in Workers :
                   /\ wpc[w] = "select" /\ wpc'[w] = "update"
                   /\ wjob'[w] = [Head(jobs) EXCEPT !.published = TRUE]
                   /\ jobs' = Tail(jobs)]_vars
    /\ []((pollPc = "push" /\ ~cancelled /\ Len(jobs) = SchedulerBufferSize)
             => ~ENABLED (PushSend \/ PushCancel))
    /\ [](Len(jobs) <= SchedulerBufferSize)
    /\ \A i \in PostIds :
          (\E k \in 1..Len(jobs) : jobs[k].id = i)
             ~> (cancelled \/ \E w \in Workers : wjob[w].id = i)

\* The poll loop waits on a full queue in the middle of a page.
C6_Witness ==
    /\ ~cancelled
    /\ pollPc = "push"
    /\ Len(batch) = PageLimit
    /\ idx > 1
    /\ Len(jobs) = SchedulerBufferSize
    /\ jobs[1].id # jobs[2].id

\* ======================================================================
\* The due-query observed
\* ======================================================================
\* The posts the due-query selects at this moment.
DueSet == {i \in DOMAIN posts : Due(i)}

\* A tick branch that returns from StartPostScheduler when GetPosts fails.
PollTickObservedFatal(dbOk) ==
    /\ pollPc = "select"
    /\ tickPending
    /\ tickPending' = FALSE
    /\ IF dbOk
       THEN IF GetPosts(DueFilter(now), PageLimit, 0) # << >>
            THEN /\ batch' = GetPosts(DueFilter(now), PageLimit, 0)
                 /\ idx' = 1
                 /\ pollPc' = "push"
            ELSE UNCHANGED <<batch, idx, pollPc>>
       ELSE /\ pollPc' = "done"
            /\ UNCHANGED <<batch, idx>>
    /\ ret' = [op |-> "GetPosts",
               id |-> IF GetPosts(DueFilter(now), PageLimit, 0) = << >>
                      THEN 0
                      ELSE GetPosts(DueFilter(now), PageLimit, 0)[1].id,
               user |-> 0,
               err |-> IF dbOk THEN "ok" ELSE "ErrDatabase"]
    /\ UNCHANGED <<now, seq, posts, cancelled, jobs, closed, wpc, wjob, hist, mainDone, ticks, sideVars>>

\* case <-ticker.C as in PollTick, with the outcome of repo.GetPosts kept in
\* ret: the error it returned and the first post the query selects (0: none).
PollTickObserved(dbOk) ==
    /\ pollPc = "select"
    /\ tickPending
    /\ tickPending' = FALSE
    /\ IF dbOk /\ GetPosts(DueFilter(now), PageLimit, 0) # << >>
       THEN /\ batch' = GetPosts(DueFilter(now), PageLimit, 0)
            /\ idx' = 1
            /\ pollPc' = "push"
       ELSE UNCHANGED <<batch, idx, pollPc>>
    /\ ret' = [op |-> "GetPosts",
               id |-> IF GetPosts(DueFilter(now), PageLimit, 0) = << >>
                      THEN 0
                      ELSE GetPosts(DueFilter(now), PageLimit, 0)[1].id,
               user |-> 0,
               err |-> IF dbOk THEN "ok" ELSE "ErrDatabase"]
    /\ UNCHANGED <<now, seq, posts, cancelled, jobs, closed, wpc, wjob, hist, mainDone, ticks, sideVars>>

\* The scheduler running without cancellation over a backlog of scheduled
\* posts; the due-query may fail, the workers' updates succeed.
FetchNext ==
    \/ AdvanceTime
    \/ Tick
    \/ \E dbOk \in BOOLEAN : PollTickObserved(dbOk)
    \/ PushSend
    \/ \E w \in Workers : WorkerRecv(w)
    \/ \E w \in Workers : WorkerUpdate(w, TRUE)
    \/ /\ seq < MaxBacklog
       /\ \E pa \in Times : Create(1, "t1", "c1", pa)

FetchSpec == Init /\ [][FetchNext]_vars

\* C11: a failing due-query is not fatal: the tick on which repo.GetPosts
\* returns an error enqueues no job and modifies no post, the poll loop and
\* all workers keep running, and the next tick whose due-query succeeds
\* selects the posts that are due then, the ones of the failed tick included.
C11_FetchFailureNonFatal ==
    [][/\ (FetchStep /\ ret'.err = "ErrDatabase") =>
             /\ jobs' = jobs
             /\ batch' = << >>
             /\ posts' = posts
             /\ pollPc' = "select"
             /\ wpc' = wpc
             /\ wjob' = wjob
             /\ \A w \in Workers : wpc'[w] # "exited"
       /\ (FetchStep /\ ret.err = "ErrDatabase" /\ ret'.err = "ok") =>
             \A i \in DueSet :
                 \/ Cardinality(DueSet) > PageLimit
                 \/ \E k \in 1..Len(batch') : batch'[k].id = i
      ]_vars

\* The due-query has failed on a tick while a post was due; the post is
\* still stored unpublished, the poll loop is back in its select with the
\* next tick pending and every worker is running.
C11_Witness ==
    /\ ret.op = "GetPosts"
    /\ ret.err = "ErrDatabase"
    /\ ret.id \in DueSet
    /\ pollPc = "select"
    /\ tickPending
    /\ jobs = << >>
    /\ \A w \in Workers : wpc[w] = "select"

\* Post i is buffered in the job queue.
Buffered(i) == \E k \in 1..Len(jobs) : jobs[k].id = i

\* C12: page limit: the jobs of one tick are the page of its due-query, at
\* most PageLimit posts; when more posts than that are due the page holds
\* exactly PageLimit of them, and a later tick that finds no more than
\* PageLimit posts due (the earlier page being published) dispatches all
\* the posts left over.
C12_PageLimit ==
    /\ [][(FetchStep /\ ret'.err = "ok") =>
             /\ Len(batch') <= PageLimit
             /\ (Cardinality(DueSet) > PageLimit => Len(batch') = PageLimit)
             /\ \A k \in 1..Len(batch') : batch'[k].id \in DueSet
             /\ \A k, l \in 1..Len(batch') : batch'[k].id = batch'[l].id => k = l
             /\ (Cardinality(DueSet) <= PageLimit =>
                    DueSet = {batch'[k].id : k \in 1..Len(batch')})
         ]_vars
    /\ [][SendStep => idx <= PageLimit /\ jobs' = Append(jobs, batch[idx])]_vars

\* More posts are due than a page holds; the poll loop has enqueued the whole
\* page of PageLimit posts and the post left over is still due.
C12_Witness ==
    /\ Cardinality(DueSet) > PageLimit
    /\ pollPc = "select"
    /\ Len(jobs) = PageLimit
    /\ \E i \in DueSet : ~Buffered(i)
    /\ \A k \in 1..Len(jobs) : jobs[k].id \in DueSet
    /\ jobs[1].id # jobs[2].id

\* The posts for which a job is buffered or in a worker's hands, one entry
\* per job.
JobIds ==
    [k \in 1..Len(jobs) |-> jobs[k].id]
      \o [k \in 1..Len(SelectSeq([w \in Workers |-> w], LAMBDA w : wpc[w] = "update"))
             |-> wjob[SelectSeq([w \in Workers |-> w], LAMBDA w : wpc[w] = "update")[k]].id]

\* C13 (as claimed): at no time are two jobs for the same post buffered or
\* being processed simultaneously, also when a later tick fires before the
\* jobs of an earlier tick have been processed.
C13_OncePerPost ==
    \A k, l \in 1..Len(JobIds) : JobIds[k] = JobIds[l] => k = l

\* C13 (amended): once per post within a tick: the job a tick enqueues is
\* for a post none of the other jobs of that tick's page is for; only jobs
\* of different ticks can be for the same post.
C13_OncePerTick ==
    [][SendStep =>
          \A k \in 1..Len(batch) :
              k # idx => jobs'[Len(jobs')].id # batch[k].id]_vars

\* A later tick has selected a post again while a worker still holds the job
\* an earlier tick enqueued for it: the page of the later tick, two distinct
\* posts, is buffered and its first post is the one the worker is updating.
C13_Witness ==
    /\ Len(jobs) = 2
    /\ jobs[1].id # jobs[2].id
    /\ \E w \in Workers : wpc[w] = "update" /\ wjob[w].id = jobs[1].id

\* C14: idempotence: a worker's update for a post that is already published
\* leaves the stored post, its published flag and its content fields, exactly
\* as it was.
C14_Idempotence ==
    [][\A w \in Workers :
          (/\ WorkerUpdateStep(w)
           /\ wjob[w].id \in DOMAIN posts
           /\ posts[wjob[w].id].published)
             => posts'[wjob[w].id] = posts[wjob[w].id]]_vars

\* ======================================================================
\* The process: main and the scheduler goroutine
\* ======================================================================
\* main after schedulerCancel(): srv.Shutdown returns and main returns; main
\* does not wait for the goroutine running StartPostScheduler.
MainReturn ==
    /\ cancelled
    /\ ~mainDone
    /\ ~osExit
    /\ mainDone' = TRUE
    /\ UNCHANGED <<now, seq, posts, cancelled, tickPending, jobs, closed, pollPc, batch, idx, wpc, wjob, hist, ret, ticks, sideVars>>

\* The goroutine that runs the HTTP server: ListenAndServe returns an error
\* other than ErrServerClosed and the goroutine calls os.Exit(1), which ends
\* the process at once; schedulerCancel() need not have run.
ServerExit ==
    /\ ~mainDone
    /\ ~osExit
    /\ osExit' = TRUE
    /\ UNCHANGED <<now, seq, posts, cancelled, tickPending, jobs, closed, pollPc, batch, idx, wpc, wjob, hist, ret, mainDone, ticks, authVars, commentVars, throttleVars, pcall>>

\* The process from start to exit: the scheduler goroutine and the request
\* goroutines run beside main until main returns or os.Exit runs, which
\* ends the process and every goroutine with it.
ProcessNext ==
    \/ /\ ~mainDone
       /\ ~osExit
       /\ \/ AdvanceTime
          \/ Tick
          \/ Cancel
          \/ \E dbOk \in BOOLEAN : PollTick(dbOk)
          \/ PushSend
          \/ PushCancel
          \/ PollShutdown
          \/ PollReturn
          \/ \E w \in Workers : WorkerRecv(w)
          \/ \E w \in Workers : WorkerClosed(w)
          \/ \E w \in Workers : WorkerCancel(w)
          \/ \E w \in Workers, dbOk \in BOOLEAN : WorkerUpdate(w, dbOk)
          \/ /\ seq < MaxPosts
             /\ \E pa \in Times : Create(1, "t1", "c1", pa)
          \/ \E p \in PostRequests, pa \in Times :
                 UpdateGet(p, 1, 1, NilStr, NilStr, pa)
          \/ \E p \in PostRequests, dbOk \in BOOLEAN : UpdateStore(p, dbOk)
          \/ \E p \in PostRequests : DeleteGet(p, 1, 1)
          \/ \E p \in PostRequests, dbOk \in BOOLEAN : DeleteStore(p, dbOk)
    \/ MainReturn
    \/ ServerExit

ProcessSpec == Init /\ [][ProcessNext]_vars

\* C15: process shutdown ordering: main cancels the scheduler's context
\* before the HTTP shutdown, and when main has returned the scheduler has
\* stopped: StartPostScheduler has returned and no worker update is in flight.
C15_SchedulerStoppedBeforeExit ==
    mainDone =>
        /\ cancelled
        /\ pollPc = "done"
        /\ \A w \in Workers : wpc[w] # "update"

\* ------------------------------------------------------- public reads ----
\* Pagination parameters of the list calls.
Limits == 0..2
Offsets == 0..1

\* A read filter that does not ask for published posts.
PublishedFilterAbsent == NoFilter

\* The filter of GetByID and GetAll: Published = true.
PublishedFilter == [NoFilter EXCEPT !.hasPublished = TRUE, !.published = TRUE]

\* The error PostService.GetByID returns.
GetByIDErr(id) ==
    IF GetPostFound(id, PublishedFilter) THEN "ok" ELSE "ErrPostNotFound"

\* The page PostService.GetAll returns.
GetAll(limit, offset) == GetPosts(PublishedFilter, limit, offset)

\* The page PostService.GetByAuthor returns.
GetByAuthor(authorID, limit, offset) ==
    GetPosts([PublishedFilter EXCEPT !.hasAuthor = TRUE, !.author = authorID],
             limit, offset)

\* C16: public reads never expose an unpublished post: GetByID returns
\* ErrPostNotFound for a stored post whose published flag is false and the
\* post for one whose flag is true, and every post in a page of GetAll or
\* GetByAuthor is stored with published = true.
C16_PublicReadsPublishedOnly ==
    /\ \A id \in DOMAIN posts :
          GetByIDErr(id) = IF posts[id].published THEN "ok" ELSE "ErrPostNotFound"
    /\ \A limit \in Limits, offset \in Offsets :
          /\ \A k \in 1..Len(GetAll(limit, offset)) :
                /\ GetAll(limit, offset)[k].published
                /\ posts[GetAll(limit, offset)[k].id].published
          /\ \A a \in {1, 2} :
                \A k \in 1..Len(GetByAuthor(a, limit, offset)) :
                    /\ posts[GetByAuthor(a, limit, offset)[k].id].published
                    /\ posts[GetByAuthor(a, limit, offset)[k].id].author = a

\* A post the scheduler had published is stored unpublished again (its author
\* set a future publishAt): GetByID returns ErrPostNotFound for it and the
\* list calls return an empty page.
C16_Witness ==
    /\ \E id \in DOMAIN posts :
          /\ hist[id] = "ok"
          /\ ~posts[id].published
          /\ GetByIDErr(id) = "ErrPostNotFound"
    /\ GetAll(0, 0) = << >>

\* ======================================================================
\* The post service called by two users
\* ======================================================================
\* The users calling the service, and the post ids they name.
Callers == {1, 2}
CallIds == 1..MaxOwned

\* The publishAt values of the calls: absent, the zero time, and a time that
\* the clock finds in the future, reaches and passes.
CallTimes == {Nil, ZeroTime, MaxTime - 1}

\* PostService.Create with the call kept in ret; postRepo.Create may fail,
\* and Create then returns ErrDatabase and no row is inserted.
CreateCall(u, t, c, pa, dbOk) ==
    /\ IF dbOk
       THEN /\ seq' = seq + 1
            /\ posts' = posts @@ ((seq + 1) :>
                   [title |-> t, content |-> c, author |-> u,
                    publishAt |-> pa, published |-> CreatePublished(pa)])
            /\ ret' = [op |-> "Create", id |-> seq + 1, user |-> u, err |-> "ok"]
       ELSE /\ ret' = [op |-> "Create", id |-> 0, user |-> u, err |-> "ErrDatabase"]
            /\ UNCHANGED <<seq, posts>>
    /\ UNCHANGED <<now, cancelled, tickPending, jobs, closed, pollPc, batch, idx, wpc, wjob, hist, mainDone, ticks, sideVars>>

\* The record of a PostService call that has returned.
PostRet(op, id, u, err) == [op |-> op, id |-> id, user |-> u, err |-> err]

\* PostService.Update, first part, with the call kept in ret when it
\* returns here: GetPost fails (ErrDatabase), finds no row (ErrPostNotFound),
\* the caller is not the author (ErrForbidden), or the request changes
\* nothing and the post is returned as read.
UpdateGetCall(p, id, u, rt, rc, rpa, dbOk) ==
    /\ pcall[p].pc = "idle"
    /\ IF ~dbOk
       THEN /\ ret' = PostRet("Update", id, u, "ErrDatabase")
            /\ UNCHANGED pcall
       ELSE IF OwnerErr(id, u) # "ok"
       THEN /\ ret' = PostRet("Update", id, u, OwnerErr(id, u))
            /\ UNCHANGED pcall
       ELSE IF ~UpdateChanges(id, rt, rc, rpa)
       THEN /\ ret' = PostRet("Update", id, u, "ok")
            /\ UNCHANGED pcall
       ELSE /\ pcall' = [pcall EXCEPT ![p] =
                    [pc |-> "update", id |-> id, user |-> u,
                     post |-> UpdatePost(id, rt, rc, rpa),
                     hasPublishAt |-> (rpa # Nil)]]
            /\ UNCHANGED ret
    /\ UNCHANGED <<posts, callFrame>>

\* PostService.Update, second part, with the error of postRepo.Update kept
\* in ret: ErrPostNotFound when the row is gone, ErrDatabase when it fails.
UpdateStoreCall(p, dbOk) ==
    /\ pcall[p].pc = "update"
    /\ posts' = IF dbOk THEN StoredByUpdate(p) ELSE posts
    /\ ret' = PostRet("Update", pcall[p].id, pcall[p].user,
                      UpdateErr(pcall[p].post, dbOk))
    /\ pcall' = [pcall EXCEPT ![p] = NoPostCall]
    /\ UNCHANGED callFrame

\* PostService.Delete, first part, with the call kept in ret when it
\* returns here.
DeleteGetCall(p, id, u, dbOk) ==
    /\ pcall[p].pc = "idle"
    /\ IF ~dbOk
       THEN /\ ret' = PostRet("Delete", id, u, "ErrDatabase")
            /\ UNCHANGED pcall
       ELSE IF OwnerErr(id, u) # "ok"
       THEN /\ ret' = PostRet("Delete", id, u, OwnerErr(id, u))
            /\ UNCHANGED pcall
       ELSE /\ pcall' = [pcall EXCEPT ![p] =
                    [NoPostCall EXCEPT !.pc = "delete", !.id = id, !.user = u]]
            /\ UNCHANGED ret
    /\ UNCHANGED <<posts, callFrame>>

\* PostService.Delete, second part, with the error of postRepo.Delete kept
\* in ret.
DeleteStoreCall(p, dbOk) ==
    /\ pcall[p].pc = "delete"
    /\ posts' = IF dbOk THEN RepoDeleted(pcall[p].id) ELSE posts
    /\ ret' = PostRet("Delete", pcall[p].id, pcall[p].user,
                      DeleteErr(pcall[p].id, dbOk))
    /\ pcall' = [pcall EXCEPT ![p] = NoPostCall]
    /\ UNCHANGED callFrame

\* The publishAt values of the update requests.
UpdateTimes == {Nil, MaxTime - 1}

\* Two users create, update and delete posts while time passes, one Update
\* or Delete at a time; an update request carries a title, a publishAt, both
\* or neither, and every repository call may fail.
ServiceNext ==
    \/ AdvanceTime
    \/ /\ seq < MaxOwned
       /\ \E u \in Callers, pa \in CallTimes, dbOk \in BOOLEAN :
              CreateCall(u, "t1", "c1", pa, dbOk)
    \/ \E p \in PostRequests, id \in CallIds, u \in Callers, rt \in {NilStr, "t2"},
          rpa \in UpdateTimes, dbOk \in BOOLEAN :
              UpdateGetCall(p, id, u, rt, NilStr, rpa, dbOk)
    \/ \E p \in PostRequests, dbOk \in BOOLEAN : UpdateStoreCall(p, dbOk)
    \/ \E p \in PostRequests, id \in CallIds, u \in Callers, dbOk \in BOOLEAN :
              DeleteGetCall(p, id, u, dbOk)
    \/ \E p \in PostRequests, dbOk \in BOOLEAN : DeleteStoreCall(p, dbOk)

ServiceSpec == Init /\ [][ServiceNext]_vars

\* C17: Create publish rule: the post Create inserts is stored with
\* published = false exactly when its publishAt is present, not the zero
\* time and strictly after the current time; with publishAt absent, zero or
\* not after the current time it is stored with published = true.
C17_CreatePublishRule ==
    [][seq' = seq + 1 =>
          /\ DOMAIN posts' = DOMAIN posts \cup {seq + 1}
          /\ \A i \in DOMAIN posts : posts'[i] = posts[i]
          /\ posts'[seq + 1].published =
                ~(/\ posts'[seq + 1].publishAt # Nil
                  /\ posts'[seq + 1].publishAt # ZeroTime
                  /\ posts'[seq + 1].publishAt > now)
      ]_vars

\* Create has just inserted a post with the zero time as publishAt, stored
\* published, beside a post whose publishAt is in the future, stored
\* unpublished.
C17_Witness ==
    /\ ret = [op |-> "Create", id |-> 2, user |-> 2, err |-> "ok"]
    /\ DOMAIN posts = {1, 2}
    /\ posts[2].publishAt = ZeroTime /\ posts[2].published
    /\ posts[1].publishAt > now /\ ~posts[1].published

\* A step in which request p's postRepo.Update returns without an error.
UpdateStoreStep(p) ==
    /\ pcall[p].pc = "update"
    /\ pcall'[p].pc = "idle"
    /\ pcall[p].id \in DOMAIN posts'
    /\ posts'[pcall[p].id].title = pcall[p].post.title
    /\ posts'[pcall[p].id].publishAt = pcall[p].post.publishAt
    /\ posts'[pcall[p].id].published = pcall[p].post.published

\* C18: Update publish rule: an Update whose request carries a publishAt
\* stores that publishAt with published = false when it is strictly after
\* the current time, also for a post that was published, and published =
\* true otherwise; an Update whose request carries no publishAt leaves the
\* stored published and publishAt as they are.
C18_UpdatePublishRule ==
    [][\A p \in Requests :
          /\ (pcall[p].pc = "idle" /\ pcall'[p].pc = "update"
                 /\ pcall'[p].hasPublishAt) =>
                 /\ pcall'[p].post.publishAt # Nil
                 /\ pcall'[p].post.published
                       = ~(pcall'[p].post.publishAt > now)
          /\ (UpdateStoreStep(p) /\ posts' # posts /\ pcall[p].hasPublishAt) =>
                 /\ posts'[pcall[p].id].publishAt = pcall[p].post.publishAt
                 /\ posts'[pcall[p].id].published = pcall[p].post.published
          /\ (UpdateStoreStep(p) /\ ~pcall[p].hasPublishAt) =>
                 /\ posts'[pcall[p].id].publishAt = posts[pcall[p].id].publishAt
                 /\ posts'[pcall[p].id].published = posts[pcall[p].id].published
      ]_vars

\* ------------------------------------------------------ delayed reads ----
\* A filter for unpublished posts of any author.
DelayedFilterAnyAuthor(userID) ==
    [NoFilter EXCEPT !.hasPublished = TRUE, !.published = FALSE]

\* The filter of GetDelayedPosts and GetDelayedPostByID: the caller's own
\* unpublished posts.
DelayedFilter(userID) ==
    [NoFilter EXCEPT !.hasAuthor = TRUE, !.author = userID,
                     !.hasPublished = TRUE, !.published = FALSE]

\* The page PostService.GetDelayedPosts returns.
GetDelayedPosts(userID, limit, offset) ==
    GetPosts(DelayedFilter(userID), limit, offset)

\* The error PostService.GetDelayedPostByID returns.
GetDelayedPostByIDErr(userID, postID) ==
    IF GetPostFound(postID, DelayedFilter(userID)) THEN "ok" ELSE "ErrPostNotFound"

\* C19: delayed reads are owner-only: every post in a page of GetDelayedPosts
\* is unpublished and authored by the caller, GetDelayedPostByID returns the
\* post only for an unpublished post the caller authored, and for a post of
\* another user, a published post or an id that is not stored it returns
\* ErrPostNotFound (never ErrForbidden).
C19_DelayedReadsOwnerOnly ==
    \A u \in Callers :
        /\ \A id \in CallIds :
              GetDelayedPostByIDErr(u, id) =
                  IF /\ id \in DOMAIN posts
                     /\ posts[id].author = u
                     /\ ~posts[id].published
                  THEN "ok"
                  ELSE "ErrPostNotFound"
        /\ \A limit \in Limits, offset \in Offsets :
              LET page == GetDelayedPosts(u, limit, offset)
              IN \A k \in 1..Len(page) :
                     /\ ~posts[page[k].id].published
                     /\ posts[page[k].id].author = u

\* User 1 has an unpublished post and a published post, user 2 none: user 1
\* is given the unpublished post, user 2 gets ErrPostNotFound for it, and
\* user 1 gets ErrPostNotFound for the published one.
C19_Witness ==
    /\ DOMAIN posts = {1, 2}
    /\ posts[1].author = 1 /\ ~posts[1].published
    /\ posts[2].author = 1 /\ posts[2].published
    /\ Len(GetDelayedPosts(1, 0, 0)) = 1
    /\ GetDelayedPostByIDErr(1, 1) = "ok"
    /\ GetDelayedPostByIDErr(2, 1) = "ErrPostNotFound"
    /\ GetDelayedPostByIDErr(1, 2) = "ErrPostNotFound"

\* Two users create, update and delete posts, two Update or Delete calls at
\* a time, each a step per repository call; every repository call may fail.
OwnerNext ==
    \/ /\ seq < MaxOwned
       /\ \E u \in Callers, pa \in UpdateTimes, dbOk \in BOOLEAN :
              CreateCall(u, "t1", "c1", pa, dbOk)
    \/ \E p \in Requests, id \in CallIds, u \in Callers, rt \in {NilStr, "t2"},
          rpa \in UpdateTimes, dbOk \in BOOLEAN :
              UpdateGetCall(p, id, u, rt, NilStr, rpa, dbOk)
    \/ \E p \in Requests, dbOk \in BOOLEAN : UpdateStoreCall(p, dbOk)
    \/ \E p \in Requests, id \in CallIds, u \in Callers, dbOk \in BOOLEAN :
              DeleteGetCall(p, id, u, dbOk)
    \/ \E p \in Requests, dbOk \in BOOLEAN : DeleteStoreCall(p, dbOk)

OwnerSpec == Init /\ [][OwnerNext]_vars

\* A step in which a call of PostService.Update or PostService.Delete
\* returns; the repository has answered every call of it.
ModifyCallStep ==
    /\ ret'.op \in {"Update", "Delete"}
    /\ ret'.err # "ErrDatabase"
    /\ (ret' # ret \/ posts' # posts)

\* C20: post ownership: Update and Delete called by a user who is not the
\* post's author return ErrForbidden and leave the stored posts unchanged;
\* for an id that is not stored they return ErrPostNotFound; a successful
\* Delete removes the post, so a second Delete of the same id returns
\* ErrPostNotFound.
C20_PostOwnership ==
    [][ModifyCallStep =>
          /\ ret'.err = IF ret'.id \notin DOMAIN posts THEN "ErrPostNotFound"
                        ELSE IF posts[ret'.id].author # ret'.user THEN "ErrForbidden"
                        ELSE "ok"
          /\ ret'.err # "ok" => posts' = posts
          /\ (ret'.op = "Delete" /\ ret'.err = "ok") =>
                /\ DOMAIN posts' = DOMAIN posts \ {ret'.id}
                /\ \A i \in DOMAIN posts' : posts'[i] = posts[i]
          /\ (ret'.op = "Update" /\ ret'.err = "ok") =>
                /\ DOMAIN posts' = DOMAIN posts
                /\ \A i \in DOMAIN posts : i # ret'.id => posts'[i] = posts[i]
                /\ posts'[ret'.id].author = posts[ret'.id].author
          /\ (ret.op = "Delete" /\ ret.err = "ok"
                /\ ret'.op = "Delete" /\ ret'.id = ret.id) =>
                   ret'.err = "ErrPostNotFound"
      ]_vars

\* User 2 has called Delete on the post of user 1 and got ErrForbidden, the
\* post is still stored; the other post has been deleted by its author.
C20_Witness ==
    /\ ret = [op |-> "Delete", id |-> 1, user |-> 2, err |-> "ErrForbidden"]
    /\ seq = 2
    /\ DOMAIN posts = {1}
    /\ posts[1].author = 1

\* ======================================================================
\* The user service: registration and refresh tokens
\* ======================================================================
\* Request values.  A refresh token string is either not a UUID (Malformed)
\* or the text of a UUID, one of TokenValues; uuid.NewV4 yields a value not
\* generated before.
Emails == {"e1", "e2"}
Usernames == {"n1", "n2"}
Malformed == 0
TokenValues == 1..MaxTokens

\* JWTManager.RefreshTokenTTL, in clock units.
RefreshTokenTTL == 1

\* A password is the sequence of its runes, all of them ASCII here, so that
\* a rune takes one byte: "Passw0rd!", "Pw1!", "password", and 73 runes
\* that begin with "P0!".
StrongPassword == <<80, 97, 115, 115, 119, 48, 114, 100, 33>>
ShortPassword == <<80, 119, 49, 33>>
PlainPassword == <<112, 97, 115, 115, 119, 111, 114, 100>>
LongPassword ==
    [i \in 1..73 |-> IF i = 1 THEN 80 ELSE IF i = 2 THEN 48
                     ELSE IF i = 3 THEN 33 ELSE 97]
Passwords == {StrongPassword, ShortPassword, PlainPassword, LongPassword}

\* const maxPasswordBytes.
maxPasswordBytes == 72

\* utf8.RuneCountInString and len of a password.
RuneCount(password) == Len(password)
ByteLen(password) == Len(password)

\* unicode.IsUpper, IsLower, IsDigit and IsSymbol or IsPunct of an ASCII
\* rune.
IsUpper(r) == r \in 65..90
IsLower(r) == r \in 97..122
IsDigit(r) == r \in 48..57
IsSymbolOrPunct(r) == r \in (33..47) \cup (58..64) \cup (91..96) \cup (123..126)

\* The flags ValidatePasswordStrength collects over the runes of a password.
hasUpper(password) == \E k \in 1..Len(password) : IsUpper(password[k])
hasLower(password) == \E k \in 1..Len(password) : IsLower(password[k])
hasDigit(password) == \E k \in 1..Len(password) : IsDigit(password[k])
hasSymbol(password) == \E k \in 1..Len(password) : IsSymbolOrPunct(password[k])

\* PasswordManager.ValidatePasswordStrength under a configuration: the error
\* it returns.
ValidatePasswordStrength(config, password) ==
    IF RuneCount(password) < config.MinLength THEN "ErrPasswordTooShort"
    ELSE IF ByteLen(password) > maxPasswordBytes THEN "ErrPasswordTooLong"
    ELSE IF \/ /\ config.CaseShiftRequired
                /\ (~hasUpper(password) \/ ~hasLower(password))
            \/ config.DigitsRequired /\ ~hasDigit(password)
            \/ config.SymbolsRequired /\ ~hasSymbol(password)
    THEN "ErrPasswordTooWeak"
    ELSE "ok"

\* The hash bcrypt.GenerateFromPassword yields for a password, and
\* PasswordManager.CheckPassword, which holds for the hash of the same
\* password only.
Hashed(password) == <<"bcrypt", password>>
CheckPassword(password, hash) == hash = Hashed(password)

\* How PasswordManager.HashPassword ends once the password has passed the
\* strength check: with the hash, with the context's error, or with the
\* error of bcrypt.
HashOutcomes == {"ok", "context.Canceled", "bcrypt"}

\* How JWTManager.GenerateToken ends: with a signed token, with the
\* context's error, or with the error of SignedString.
GenerateOutcomes == {"ok", "context.Canceled", "sign"}

\* How RefreshTokenRepository.Create ends: the token is stored, or it is not
\* and the error is the context's or another one.
StoreOutcomes == {"ok", "context.Canceled", "error"}

\* uuid.FromString fails.
FromStringErr(s) == s \notin TokenValues

\* UserRepo.ExistsByField(field, value).
ExistsByField(field, value) ==
    \E i \in DOMAIN users :
        IF field = "email" THEN users[i].email = value
                           ELSE users[i].username = value

\* UserRepo.GetByField("email", value): the id of the user found, 0 when
\* there is none.  Emails are unique among the stored users.
GetByEmail(value) ==
    IF ExistsByField("email", value)
    THEN CHOOSE i \in DOMAIN users : users[i].email = value
    ELSE 0

\* InMemoryUserRepo.Create: the error it returns.
UserCreateErr(email, username) ==
    IF \E i \in DOMAIN users :
           users[i].email = email \/ users[i].username = username
    THEN "ErrUserExists"
    ELSE "ok"

\* What a call of the user service returns: id is the refresh token value
\* of a RefreshToken call and the user's id, 0 when none is known, of a
\* Register or Login call.
AuthRet(p, op, id, err) == [op |-> op, id |-> id, user |-> p, err |-> err]

\* The call of goroutine p returns err, with nothing written in this step.
AuthReturn(p, op, id, err) ==
    /\ ret' = AuthRet(p, op, id, err)
    /\ acall' = [acall EXCEPT ![p] = Idle]

\* UserService.Register, ExistsByField(email): a taken email returns
\* ErrUserAlreadyExists.
RegisterEmail(p, email, username, password) ==
    /\ acall[p].pc = "idle"
    /\ IF ExistsByField("email", email)
       THEN AuthReturn(p, "Register", 0, "ErrUserAlreadyExists")
       ELSE /\ acall' = [acall EXCEPT ![p] =
                   [Idle EXCEPT !.pc = "username", !.op = "Register",
                                !.email = email, !.username = username,
                                !.password = password]]
            /\ UNCHANGED ret
    /\ UNCHANGED <<now, users, tokens, tokSeq, pwcfg>>
    /\ UNCHANGED <<coreVars, commentVars, throttleVars>>

\* UserService.Register, ExistsByField(username), and with the username
\* free ValidatePasswordStrength, whose error is returned as
\* ErrWeakPassword.
RegisterUsername(p) ==
    /\ acall[p].pc = "username"
    /\ IF ExistsByField("username", acall[p].username)
       THEN AuthReturn(p, "Register", 0, "ErrUserAlreadyExists")
       ELSE IF ValidatePasswordStrength(pwcfg, acall[p].password) # "ok"
       THEN AuthReturn(p, "Register", 0, "ErrWeakPassword")
       ELSE /\ acall' = [acall EXCEPT ![p].pc = "hash"]
            /\ UNCHANGED ret
    /\ UNCHANGED <<now, users, tokens, tokSeq, pwcfg>>
    /\ UNCHANGED <<coreVars, commentVars, throttleVars>>

\* UserService.Register, HashPassword, which validates the password again
\* and then waits for bcrypt: the wait ends with the hash, or the call
\* returns the context's error, or ErrPasswordHash for any other error.
RegisterHash(p, h) ==
    /\ acall[p].pc = "hash"
    /\ IF ValidatePasswordStrength(pwcfg, acall[p].password) # "ok"
       THEN AuthReturn(p, "Register", 0, "ErrPasswordHash")
       ELSE IF h = "ok"
       THEN /\ acall' = [acall EXCEPT ![p].pc = "register",
                                      ![p].hash = Hashed(acall[p].password)]
            /\ UNCHANGED ret
       ELSE AuthReturn(p, "Register", 0,
                IF h = "context.Canceled" THEN h ELSE "ErrPasswordHash")
    /\ UNCHANGED <<now, users, tokens, tokSeq, pwcfg>>
    /\ UNCHANGED <<coreVars, commentVars, throttleVars>>

\* UserService.Register, userRepo.Create, whose error is returned as
\* ErrDatabase.  With the user stored the call goes on to createTokenPair.
RegisterCreate(p) ==
    /\ acall[p].pc = "register"
    /\ IF UserCreateErr(acall[p].email, acall[p].username) = "ok"
       THEN /\ users' = Append(users, [email |-> acall[p].email,
                                       username |-> acall[p].username,
                                       passwordHash |-> acall[p].hash])
            /\ acall' = [acall EXCEPT ![p] =
                   [Idle EXCEPT !.pc = "pair", !.op = "Register",
                                !.user = Len(users) + 1]]
            /\ UNCHANGED ret
       ELSE /\ AuthReturn(p, "Register", 0, "ErrDatabase")
            /\ UNCHANGED users
    /\ UNCHANGED <<now, tokens, tokSeq, pwcfg>>
    /\ UNCHANGED <<coreVars, commentVars, throttleVars>>

\* UserService.Login up to createTokenPair: GetByField by email and
\* CheckPassword; an unknown email and a wrong password both return
\* ErrInvalidCredentials.
Login(p, email, password) ==
    /\ acall[p].pc = "idle"
    /\ IF GetByEmail(email) = 0
       THEN AuthReturn(p, "Login", 0, "ErrInvalidCredentials")
       ELSE IF ~CheckPassword(password, users[GetByEmail(email)].passwordHash)
       THEN AuthReturn(p, "Login", GetByEmail(email), "ErrInvalidCredentials")
       ELSE /\ acall' = [acall EXCEPT ![p] =
                   [Idle EXCEPT !.pc = "pair", !.op = "Login",
                                !.user = GetByEmail(email)]]
            /\ UNCHANGED ret
    /\ UNCHANGED <<now, users, tokens, tokSeq, pwcfg>>
    /\ UNCHANGED <<coreVars, commentVars, throttleVars>>

\* UserService.RefreshToken, uuid.FromString and GetByValue.
RefreshGet(p, s) ==
    /\ acall[p].pc = "idle"
    /\ IF FromStringErr(s) \/ s \notin DOMAIN tokens
       THEN AuthReturn(p, "RefreshToken", s, "ErrInvalidRefreshToken")
       ELSE /\ acall' = [acall EXCEPT ![p] =
                   [Idle EXCEPT !.pc = "refresh", !.op = "RefreshToken",
                                !.value = s,
                                !.user = tokens[s].user,
                                !.expiresAt = tokens[s].expiresAt]]
            /\ UNCHANGED ret
    /\ UNCHANGED <<now, users, tokens, tokSeq, pwcfg>>
    /\ UNCHANGED <<coreVars, commentVars, throttleVars>>

\* UserService.RefreshToken, the expiry check against the current time and
\* DeleteByValue.  Deleting an expired token may fail without changing the
\* result; deleting a live token that is no longer stored is returned as
\* ErrDatabase.  With the token deleted the call goes on to createTokenPair.
RefreshDelete(p) ==
    /\ acall[p].pc = "refresh"
    /\ IF After(now, acall[p].expiresAt)
       THEN /\ tokens' = [v \in DOMAIN tokens \ {acall[p].value} |-> tokens[v]]
            /\ AuthReturn(p, "RefreshToken", acall[p].value,
                          "ErrRefreshTokenExpired")
       ELSE IF acall[p].value \notin DOMAIN tokens
            THEN /\ AuthReturn(p, "RefreshToken", acall[p].value, "ErrDatabase")
                 /\ UNCHANGED tokens
            ELSE /\ tokens' = [v \in DOMAIN tokens \ {acall[p].value} |->
                                  tokens[v]]
                 /\ acall' = [acall EXCEPT ![p].pc = "pair"]
                 /\ UNCHANGED ret
    /\ UNCHANGED <<now, users, tokSeq, pwcfg>>
    /\ UNCHANGED <<coreVars, commentVars, throttleVars>>

\* The id a call in createTokenPair returns with.
PairId(p) ==
    IF acall[p].op = "RefreshToken" THEN acall[p].value ELSE acall[p].user

\* UserService.createTokenPair up to refreshTokenRepo.Create: GenerateToken,
\* whose error is returned as the context's or as ErrTokenGeneration; a new
\* refresh token value, expiring RefreshTokenTTL from now, handed to
\* refreshTokenRepo.Create, whose error is returned as the context's or as
\* ErrDatabase.  With the token stored the call goes on to read the user.
createTokenPair(p, gen, store) ==
    /\ acall[p].pc = "pair"
    /\ IF gen # "ok"
       THEN /\ AuthReturn(p, acall[p].op, PairId(p),
                  IF gen = "context.Canceled" THEN gen ELSE "ErrTokenGeneration")
            /\ UNCHANGED <<tokens, tokSeq>>
       ELSE /\ tokSeq' = tokSeq + 1
            /\ IF store # "ok"
               THEN /\ AuthReturn(p, acall[p].op, PairId(p),
                          IF store = "context.Canceled" THEN store
                          ELSE "ErrDatabase")
                    /\ UNCHANGED tokens
               ELSE /\ tokens' = tokens @@ ((tokSeq + 1) :>
                           [user |-> acall[p].user,
                            expiresAt |-> now + RefreshTokenTTL])
                    /\ acall' = [acall EXCEPT ![p].pc = "getuser",
                                              ![p].issued = tokSeq + 1]
                    /\ UNCHANGED ret
    /\ UNCHANGED <<now, users, pwcfg>>
    /\ UNCHANGED <<coreVars, commentVars, throttleVars>>

\* UserService.createTokenPair, userRepo.GetByID and the return of the
\* pair; an error of GetByID is returned as ErrUserNotFound, with the token
\* stored.
createTokenPairUser(p, getOk) ==
    /\ acall[p].pc = "getuser"
    /\ AuthReturn(p, acall[p].op, PairId(p),
                  IF getOk /\ acall[p].user \in DOMAIN users
                  THEN "ok" ELSE "ErrUserNotFound")
    /\ UNCHANGED <<now, users, tokens, tokSeq, pwcfg>>
    /\ UNCHANGED <<coreVars, commentVars, throttleVars>>

\* The number of calls in progress that may still generate a token value.
InProgress ==
    Cardinality({p \in Requests : acall[p].pc \notin {"idle", "getuser"}})

\* The number of Register calls that may still create a user.
InRegister ==
    Cardinality({p \in Requests :
                    acall[p].pc \in {"username", "hash", "register"}})

\* The requests that run beside token refreshes: the email and username of
\* two accounts, and a password the default configuration accepts and one
\* it rejects.
Accounts == {<<"e1", "n1">>, <<"e2", "n2">>}
RefreshPasswords == {StrongPassword, PlainPassword}

\* Request goroutines register users, log in and refresh tokens while time
\* passes.
AuthNext ==
    \/ AdvanceTime
    \/ /\ Len(users) + InRegister < MaxUsers
       /\ tokSeq + InProgress < MaxTokens
       /\ \E p \in Requests, a \in Accounts, pw \in RefreshPasswords :
              RegisterEmail(p, a[1], a[2], pw)
    \/ \E p \in Requests : RegisterUsername(p)
    \/ \E p \in Requests, h \in HashOutcomes : RegisterHash(p, h)
    \/ \E p \in Requests : RegisterCreate(p)
    \/ /\ tokSeq + InProgress < MaxTokens
       /\ \E p \in Requests, e \in Emails, pw \in RefreshPasswords :
              Login(p, e, pw)
    \/ /\ tokSeq + InProgress < MaxTokens
       /\ \E p \in Requests, s \in {Malformed} \cup TokenValues : RefreshGet(p, s)
    \/ \E p \in Requests : RefreshDelete(p)
    \/ \E p \in Requests, gen \in GenerateOutcomes, store \in StoreOutcomes :
           createTokenPair(p, gen, store)
    \/ \E p \in Requests, getOk \in BOOLEAN : createTokenPairUser(p, getOk)

AuthSpec == Init /\ [][AuthNext]_vars

\* The user service is built with the default password configuration or
\* with the one of the tests.
RegisterInit == Constructed /\ pwcfg \in PasswordConfigs

\* Request goroutines register users with any of the passwords.
RegisterNext ==
    \/ /\ Len(users) + InRegister < MaxUsers
       /\ \E p \in Requests, e \in Emails, n \in Usernames, pw \in Passwords :
              RegisterEmail(p, e, n, pw)
    \/ \E p \in Requests : RegisterUsername(p)
    \/ \E p \in Requests, h \in HashOutcomes : RegisterHash(p, h)
    \/ \E p \in Requests : RegisterCreate(p)
    \/ \E p \in Requests, gen \in GenerateOutcomes, store \in StoreOutcomes :
           createTokenPair(p, gen, store)
    \/ \E p \in Requests, getOk \in BOOLEAN : createTokenPairUser(p, getOk)

RegisterSpec == RegisterInit /\ [][RegisterNext]_vars

\* A step in which the RefreshToken call of goroutine p returns.
RefreshReturns(p) ==
    /\ acall[p].op = "RefreshToken" \/ acall[p].pc = "idle"
    /\ ret'.op = "RefreshToken"
    /\ ret'.user = p
    /\ acall'[p].pc = "idle"
    /\ acall'[p] # acall[p] \/ ret' # ret

\* C21: refresh tokens are single-use: RefreshToken deletes the presented
\* token and issues a pair only for a stored token whose expiry has not
\* passed, and it succeeds only after it has deleted that token and stored
\* a newly generated one for the same user; a RefreshToken that returns
\* next after a RefreshToken with the same value has succeeded returns
\* ErrInvalidRefreshToken; an expired token returns ErrRefreshTokenExpired
\* and is deleted; a malformed or unknown value returns
\* ErrInvalidRefreshToken and nothing is changed.
C21_RefreshSingleUse ==
    [][\A p \in Requests :
          /\ (acall[p].pc = "refresh" /\ acall'[p].pc = "pair") =>
                /\ acall[p].value \in DOMAIN tokens
                /\ tokens[acall[p].value].expiresAt >= now
                /\ acall'[p].user = tokens[acall[p].value].user
                /\ DOMAIN tokens' = DOMAIN tokens \ {acall[p].value}
          /\ (/\ acall[p].pc = "pair" /\ acall[p].op = "RefreshToken"
              /\ acall'[p].pc = "getuser") =>
                /\ DOMAIN tokens' = DOMAIN tokens \cup {tokSeq + 1}
                /\ tokSeq + 1 \notin DOMAIN tokens
                /\ tokens'[tokSeq + 1].user = acall[p].user
                /\ acall[p].value \notin DOMAIN tokens'
          /\ (RefreshReturns(p) /\ ret'.err = "ok") =>
                /\ acall[p].pc = "getuser"
                /\ ret'.id = acall[p].value
                /\ tokens' = tokens
          /\ (/\ RefreshReturns(p)
              /\ ret.op = "RefreshToken" /\ ret.err = "ok"
              /\ ret'.id = ret.id) =>
                ret'.err = "ErrInvalidRefreshToken"
          /\ (/\ acall[p].pc = "refresh" /\ acall'[p].pc # "refresh"
              /\ now > acall[p].expiresAt) =>
                /\ ret' = AuthRet(p, "RefreshToken", acall[p].value,
                                  "ErrRefreshTokenExpired")
                /\ acall'[p].pc = "idle"
                /\ DOMAIN tokens' = DOMAIN tokens \ {acall[p].value}
          /\ (acall[p].pc = "idle" /\ acall'[p].pc = "refresh") =>
                /\ ~FromStringErr(acall'[p].value)
                /\ acall'[p].value \in DOMAIN tokens
          /\ (RefreshReturns(p) /\ acall[p].pc = "idle") =>
                /\ ret'.err = "ErrInvalidRefreshToken"
                /\ ret'.id = Malformed \/ ret'.id \notin DOMAIN tokens
                /\ tokens' = tokens
      ]_vars

\* C22: registration uniqueness: no two stored users share an email or a
\* username; a Register that finds its email or its username taken, at
\* either ExistsByField or at userRepo.Create, returns ErrUserAlreadyExists
\* and stores neither a user nor a refresh token.
C22_RegistrationUnique ==
    /\ [](\A i, j \in DOMAIN users :
             i # j => /\ users[i].email # users[j].email
                      /\ users[i].username # users[j].username)
    /\ [][\A p \in Requests :
             /\ (/\ acall[p].pc = "idle" /\ acall'[p].pc = "idle"
                 /\ ret'.op = "Register" /\ ret'.user = p /\ ret' # ret) =>
                   /\ ret' = AuthRet(p, "Register", 0, "ErrUserAlreadyExists")
                   /\ users' = users /\ tokens' = tokens
             /\ (/\ acall[p].pc = "username" /\ acall'[p].pc # "username"
                 /\ ExistsByField("username", acall[p].username)) =>
                   /\ ret' = AuthRet(p, "Register", 0, "ErrUserAlreadyExists")
                   /\ acall'[p].pc = "idle"
                   /\ users' = users /\ tokens' = tokens
             /\ (/\ acall[p].pc = "register" /\ acall'[p].pc # "register"
                 /\ \/ ExistsByField("email", acall[p].email)
                    \/ ExistsByField("username", acall[p].username)) =>
                   /\ ret' = AuthRet(p, "Register", 0, "ErrUserAlreadyExists")
                   /\ acall'[p].pc = "idle"
                   /\ users' = users /\ tokens' = tokens
         ]_vars

\* C23: channel protocol: the job queue is closed only by the poll loop, in
\* its select, after cancellation and outside PushJobs (no page in hand);
\* once closed it stays closed, the poll loop is past its loop, so that
\* neither a send nor a second close can run, and nothing is added to the
\* queue; only the poll loop in PushJobs adds a job and only a worker's
\* receive removes one, from the head.
C23_ChannelProtocol ==
    /\ [](closed => /\ cancelled
                    /\ pollPc \in {"wait", "done"}
                    /\ ~ENABLED PushSend
                    /\ ~ENABLED PollShutdown)
    /\ [][/\ closed => (closed' /\ Len(jobs') <= Len(jobs))
          /\ (~closed /\ closed') =>
                /\ cancelled
                /\ pollPc = "select" /\ pollPc' = "wait"
                /\ batch = << >>
                /\ jobs' = jobs
          /\ Len(jobs') > Len(jobs) =>
                /\ pollPc = "push" /\ ~closed
                /\ jobs' = Append(jobs, batch[idx])
                /\ wpc' = wpc
          /\ Len(jobs') < Len(jobs) =>
                /\ jobs' = Tail(jobs)
                /\ pollPc' = pollPc
                /\ \E w \in Workers : wpc[w] = "select" /\ wpc'[w] = "update"
         ]_vars

\* The queue has been closed with jobs still buffered and a worker able to
\* receive; the poll loop waits for the workers.
C23_Witness ==
    /\ closed
    /\ jobs # << >>
    /\ pollPc = "wait"
    /\ \E w \in Workers : wpc[w] = "select"

\* ======================================================================
\* A backlog with posts whose update always fails
\* ======================================================================
\* The posts whose repo.Update fails on every attempt: as many as a page
\* holds, the most recently created ones.
FailingPosts == {i \in PostIds : i > MaxBacklog - PageLimit}

\* The scheduler runs without cancellation over a backlog of scheduled
\* posts; the due-query succeeds and a worker's update fails exactly for
\* the posts of FailingPosts.
StarveNext ==
    \/ AdvanceTime
    \/ Tick
    \/ TickMore
    \/ PollTick(TRUE)
    \/ PushSend
    \/ \E w \in Workers : WorkerRecv(w)
    \/ \E w \in Workers : WorkerUpdate(w, wjob[w].id \notin FailingPosts)
    \/ /\ seq < MaxBacklog
       /\ Create(1, "t1", "c1", MaxTime - 1)

\* Ticks keep occurring and every enabled step of the poll loop and of the
\* workers is eventually taken.
StarveFairness ==
    /\ WF_vars(Tick \/ TickMore)
    /\ WF_vars(PollTick(TRUE))
    /\ WF_vars(PushSend)
    /\ \A w \in Workers :
          /\ WF_vars(WorkerRecv(w))
          /\ WF_vars(WorkerUpdate(w, wjob[w].id \notin FailingPosts))

StarveSpec == Init /\ [][StarveNext]_vars /\ StarveFairness

\* C24: no starvation behind failing posts: a due post whose own update
\* would succeed is eventually published, although as many other due posts
\* as a page holds fail their update on every attempt.
C24_NoStarvation ==
    \A i \in PostIds \ FailingPosts :
        Due(i) ~> (i \in DOMAIN posts /\ posts[i].published)

\* The scheduler runs as in StarveSpec, the first post is scheduled for an
\* earlier time than the later ones, and the update of a post outside
\* FailingPosts may fail too, though not on every attempt.
HealNext ==
    \/ AdvanceTime
    \/ Tick
    \/ TickMore
    \/ PollTick(TRUE)
    \/ PushSend
    \/ \E w \in Workers : WorkerRecv(w)
    \/ \E w \in Workers : WorkerUpdate(w, wjob[w].id \notin FailingPosts)
    \/ \E w \in Workers :
          wjob[w].id \notin FailingPosts /\ WorkerUpdate(w, FALSE)
    \/ /\ seq < MaxBacklog
       /\ Create(1, "t1", "c1", IF seq = 0 THEN MaxTime - 1 ELSE MaxTime)

HealSpec == Init /\ [][HealNext]_vars /\ StarveFairness

\* C10: a worker whose repo.Update returns an error keeps running without
\* retrying and the stored posts are unchanged by the failed update; a post
\* whose update has failed, though not one of those that fail on every
\* attempt, and that is still due is selected again by the due-query of a
\* later tick; and an update that succeeds leaves the post published.
C10_FailureSelfHealing ==
    /\ [][\A w \in Workers : WorkerUpdateStep(w) =>
             /\ wjob'[w] = NoJob
             /\ hist'[wjob[w].id] = "err" => posts' = posts
             /\ hist'[wjob[w].id] \in {"ok", "healed"} =>
                   posts'[wjob[w].id].published]_vars
    /\ \A i \in PostIds \ FailingPosts :
          (hist[i] = "err" /\ Due(i)) ~>
              (~Due(i) \/ \E k \in 1..Len(batch) : batch[k].id = i)

\* C25: oldest-due page first: when more posts are due than a page holds,
\* the page a tick dispatches holds the posts that have been due the
\* longest: no due post left out of the page has an earlier publishAt than
\* a post in the page.
C25_OldestDueFirst ==
    [][(FetchStep /\ ret'.err = "ok" /\ Cardinality(DueSet) > PageLimit) =>
          \A i \in DueSet :
              (\A k \in 1..Len(batch') : batch'[k].id # i) =>
                  \A k \in 1..Len(batch') :
                      posts[i].publishAt >= batch'[k].publishAt]_vars

\* ======================================================================
\* The backlog monitor
\* ======================================================================
\* case jobs <- post, the send alone; the poll loop goes on to read len(jobs).
PushSendObserved ==
    /\ pollPc = "push"
    /\ Len(jobs) < SchedulerBufferSize
    /\ jobs' = Append(jobs, batch[idx])
    /\ pollPc' = "len"
    /\ UNCHANGED <<now, seq, posts, cancelled, tickPending, closed, batch, idx, wpc, wjob, hist, ret, mainDone, ticks, sideVars>>

\* A monitor that holds the range loop back while the backlog is large.
PushLenThrottling ==
    /\ pollPc = "len"
    /\ Len(jobs) <= SchedulerMaxJobQueueSize
    /\ ret' = [op |-> "PushJobs", id |-> batch[idx].id, user |-> 0, err |-> "ok"]
    /\ IF idx < Len(batch)
       THEN /\ idx' = idx + 1
            /\ pollPc' = "push"
            /\ UNCHANGED batch
       ELSE /\ idx' = 1
            /\ batch' = << >>
            /\ pollPc' = "select"
    /\ UNCHANGED <<now, seq, posts, cancelled, tickPending, jobs, closed, wpc, wjob, hist, mainDone, ticks, sideVars>>

\* if len(jobs) > SchedulerMaxJobQueueSize { logger.Warn(...) }, then the
\* next iteration of the range loop.  ret keeps whether the warning was
\* logged ("warn") for the post just enqueued.
PushLen ==
    /\ pollPc = "len"
    /\ ret' = [op |-> "PushJobs", id |-> batch[idx].id, user |-> 0,
               err |-> IF Len(jobs) > SchedulerMaxJobQueueSize
                       THEN "warn" ELSE "ok"]
    /\ IF idx < Len(batch)
       THEN /\ idx' = idx + 1
            /\ pollPc' = "push"
            /\ UNCHANGED batch
       ELSE /\ idx' = 1
            /\ batch' = << >>
            /\ pollPc' = "select"
    /\ UNCHANGED <<now, seq, posts, cancelled, tickPending, jobs, closed, wpc, wjob, hist, mainDone, ticks, sideVars>>

\* The scheduler runs without cancellation over a backlog of scheduled
\* posts; an enqueue is the send followed by the read of len(jobs), and the
\* workers run between the two.
MonitorNext ==
    \/ AdvanceTime
    \/ Tick
    \/ PollTick(TRUE)
    \/ PushSendObserved
    \/ PushLen
    \/ \E w \in Workers : WorkerRecv(w)
    \/ \E w \in Workers : WorkerUpdate(w, TRUE)
    \/ /\ seq < MaxBacklog
       /\ \E pa \in Times : Create(1, "t1", "c1", pa)

MonitorSpec == Init /\ [][MonitorNext]_vars

\* C26: bounded queue and observational backlog monitor: the queue never
\* holds more than SchedulerBufferSize jobs; after an enqueue the warning is
\* logged exactly when len(jobs), read at that moment, is greater than
\* SchedulerMaxJobQueueSize; the read is always possible at once, changes
\* neither the queue nor a post, and the range loop goes on with the next
\* post of the page, or back to the select after the last one.
C26_BoundedQueueMonitor ==
    /\ [](Len(jobs) <= SchedulerBufferSize)
    /\ [](pollPc = "len" => ENABLED PushLen)
    /\ [][/\ (pollPc = "push" /\ pollPc' # "push") =>
                /\ pollPc' = "len"
                /\ jobs' = Append(jobs, batch[idx])
                /\ batch' = batch /\ idx' = idx
          /\ (pollPc = "len" /\ pollPc' # "len") =>
                /\ ret'.op = "PushJobs"
                /\ ret'.id = batch[idx].id
                /\ ret'.err = IF Len(jobs) > SchedulerMaxJobQueueSize
                              THEN "warn" ELSE "ok"
                /\ jobs' = jobs
                /\ posts' = posts
                /\ wpc' = wpc
                /\ IF idx < Len(batch)
                   THEN pollPc' = "push" /\ idx' = idx + 1 /\ batch' = batch
                   ELSE pollPc' = "select"
         ]_vars

\* The warning has been logged for a post of a page that is not its last,
\* the queue being over the threshold and not full, no worker holding a
\* job: the range loop is at the next post of the page and its send has
\* room in the queue.
C26_Witness ==
    /\ ret.op = "PushJobs"
    /\ ret.err = "warn"
    /\ pollPc = "push"
    /\ idx > 1
    /\ ret.id = batch[idx - 1].id
    /\ Len(jobs) > SchedulerMaxJobQueueSize
    /\ Len(jobs) < SchedulerBufferSize
    /\ \A w \in Workers : wpc[w] = "select"


\* ------------------------------------------- deletion of fetched posts ----
\* The worker's repo.Update with the error it logs on record.
WorkerUpdateObserved(w, dbOk) ==
    /\ wpc[w] = "update"
    /\ posts' = IF dbOk THEN RepoUpdated(wjob[w]) ELSE posts
    /\ wpc' = [wpc EXCEPT ![w] = "select"]
    /\ ret' = [op |-> "WorkerUpdate", id |-> wjob[w].id, user |-> 0,
               err |-> UpdateErr(wjob[w], dbOk)]
    /\ wjob' = [wjob EXCEPT ![w] = NoJob]
    /\ hist' = [hist EXCEPT ![wjob[w].id] =
                   IF UpdateErr(wjob[w], dbOk) # "ok" THEN "err"
                   ELSE IF hist[wjob[w].id] \in {"err", "healed"} THEN "healed"
                   ELSE "ok"]
    /\ UNCHANGED <<now, seq, cancelled, tickPending, jobs, closed, pollPc, batch, idx, mainDone, ticks, sideVars>>

\* The scheduler running without cancellation while the author creates and
\* deletes scheduled posts; the database answers every statement.
RemoveNext ==
    \/ AdvanceTime
    \/ Tick
    \/ PollTick(TRUE)
    \/ PushSend
    \/ \E w \in Workers : WorkerRecv(w)
    \/ \E w \in Workers : WorkerUpdateObserved(w, TRUE)
    \/ /\ seq < MaxOwned
       /\ \E pa \in Times : Create(1, "t1", "c1", pa)
    \/ \E id \in PostIds : DeleteGet(1, id, 1)
    \/ DeleteStore(1, TRUE)

RemoveSpec == Init /\ [][RemoveNext]_vars

\* C27: no resurrection of deleted posts: when a worker processes a job
\* whose post was deleted after it was fetched, repo.Update returns
\* ErrPostNotFound and writes nothing, the worker records the failure and
\* goes back to its select for the next job, and a post that was deleted
\* never appears again.
C27_NoResurrection ==
    [][/\ \A w \in Workers :
             (wpc[w] = "update" /\ wpc'[w] # "update"
                 /\ wjob[w].id \notin DOMAIN posts) =>
                 /\ ret' = [op |-> "WorkerUpdate", id |-> wjob[w].id,
                            user |-> 0, err |-> "ErrPostNotFound"]
                 /\ posts' = posts
                 /\ hist'[wjob[w].id] = "err"
                 /\ wpc'[w] = "select"
                 /\ wjob'[w] = NoJob
                 /\ jobs' = jobs
       /\ \A i \in PostIds :
             (i <= seq /\ i \notin DOMAIN posts) => i \notin DOMAIN posts'
      ]_vars

\* A worker's update has just failed with ErrPostNotFound for a post that
\* was created, fetched as a job and then deleted, and the worker is back
\* at its select.
C27_Witness ==
    /\ ret = [op |-> "WorkerUpdate", id |-> 1, user |-> 0,
              err |-> "ErrPostNotFound"]
    /\ seq >= 1
    /\ 1 \notin DOMAIN posts
    /\ hist[1] = "err"
    /\ \A w \in Workers : wpc[w] = "select"


\* ----------------------------------------------------- comment service ----
MaxComments == 2
CommentIds == 1..MaxComments
CommentTexts == {"k1", "k2"}

\* ensurePostPublished: GetPost(postID, Published = true); a post that is
\* missing or unpublished is reported as ErrCommentNotFound.
ensurePostPublished(postID) ==
    IF GetPostFound(postID, PublishedFilter) THEN "ok" ELSE "ErrCommentNotFound"

\* An owner check that lets every user pass.
checkOwnerAny(author, userID) == "ok"

\* checkOwner of the comment service.
checkOwner(author, userID) ==
    IF author # userID THEN "ErrForbidden" ELSE "ok"

\* The record of a CommentService call that has returned.
CommentRet(op, id, u, err) == [op |-> op, id |-> id, user |-> u, err |-> err]

\* CommentService.Create, first part: GetPost(postID, Published = true).
CommentCreateCheck(p, u, postID, text) ==
    /\ ccall[p].pc = "idle"
    /\ IF GetPostFound(postID, PublishedFilter)
       THEN /\ ccall' = [ccall EXCEPT ![p] =
                   [NoComment EXCEPT !.pc = "create", !.user = u,
                                     !.post = postID, !.content = text]]
            /\ UNCHANGED ret
       ELSE /\ ret' = CommentRet("CommentCreate", 0, u, "ErrPostNotFound")
            /\ UNCHANGED ccall
    /\ UNCHANGED <<now, comments, cseq, authVars, throttleVars>>
    /\ UNCHANGED coreVars

\* CommentService.Create, second part: commentRepo.Create.
CommentCreateStore(p) ==
    /\ ccall[p].pc = "create"
    /\ cseq' = cseq + 1
    /\ comments' = comments @@ ((cseq + 1) :>
           [content |-> ccall[p].content, post |-> ccall[p].post,
            author |-> ccall[p].user])
    /\ ret' = CommentRet("CommentCreate", cseq + 1, ccall[p].user, "ok")
    /\ ccall' = [ccall EXCEPT ![p] = NoComment]
    /\ UNCHANGED <<now, authVars, throttleVars>>
    /\ UNCHANGED coreVars

\* CommentService.GetByPost, first read: ensurePostPublished, whose error
\* is returned; a failure of the repository other than a missing post is
\* ErrDatabase.
CommentGetByPost(p, postID, dbOk) ==
    /\ ccall[p].pc = "idle"
    /\ IF ~dbOk
       THEN /\ ret' = CommentRet("GetByPost", postID, 0, "ErrDatabase")
            /\ UNCHANGED ccall
       ELSE IF ensurePostPublished(postID) # "ok"
       THEN /\ ret' = CommentRet("GetByPost", postID, 0,
                                 ensurePostPublished(postID))
            /\ UNCHANGED ccall
       ELSE /\ ccall' = [ccall EXCEPT ![p] =
                   [NoComment EXCEPT !.pc = "list", !.post = postID]]
            /\ UNCHANGED ret
    /\ UNCHANGED <<now, comments, cseq, authVars, throttleVars>>
    /\ UNCHANGED coreVars

\* CommentService.GetByPost, second read: commentRepo.GetByPostID, whose
\* error is returned as ErrDatabase.
CommentGetByPostList(p, dbOk) ==
    /\ ccall[p].pc = "list"
    /\ IF dbOk
       THEN /\ ccall' = [ccall EXCEPT ![p].pc = "count"]
            /\ UNCHANGED ret
       ELSE /\ ret' = CommentRet("GetByPost", ccall[p].post, 0, "ErrDatabase")
            /\ ccall' = [ccall EXCEPT ![p] = NoComment]
    /\ UNCHANGED <<now, comments, cseq, authVars, throttleVars>>
    /\ UNCHANGED coreVars

\* CommentService.GetByPost, third read: commentRepo.GetCountByPostID,
\* whose error is returned as ErrDatabase; otherwise the call returns the
\* comments and their count.
CommentGetByPostCount(p, dbOk) ==
    /\ ccall[p].pc = "count"
    /\ ret' = CommentRet("GetByPost", ccall[p].post, 0,
                         IF dbOk THEN "ok" ELSE "ErrDatabase")
    /\ ccall' = [ccall EXCEPT ![p] = NoComment]
    /\ UNCHANGED <<now, comments, cseq, authVars, throttleVars>>
    /\ UNCHANGED coreVars

\* CommentService.Update, first part: commentRepo.GetByID.
CommentUpdateGet(p, id, u, text) ==
    /\ ccall[p].pc = "idle"
    /\ IF id \in DOMAIN comments
       THEN /\ ccall' = [ccall EXCEPT ![p] =
                   [pc |-> "ensure", id |-> id, user |-> u,
                    post |-> comments[id].post, author |-> comments[id].author,
                    content |-> text]]
            /\ UNCHANGED ret
       ELSE /\ ret' = CommentRet("CommentUpdate", id, u, "ErrCommentNotFound")
            /\ UNCHANGED ccall
    /\ UNCHANGED <<now, comments, cseq, authVars, throttleVars>>
    /\ UNCHANGED coreVars

\* CommentService.Update, second part: ensurePostPublished, then checkOwner.
CommentUpdateEnsure(p) ==
    /\ ccall[p].pc = "ensure"
    /\ IF ensurePostPublished(ccall[p].post) # "ok"
       THEN /\ ret' = CommentRet("CommentUpdate", ccall[p].id, ccall[p].user,
                                 ensurePostPublished(ccall[p].post))
            /\ ccall' = [ccall EXCEPT ![p] = NoComment]
       ELSE IF checkOwner(ccall[p].author, ccall[p].user) # "ok"
       THEN /\ ret' = CommentRet("CommentUpdate", ccall[p].id, ccall[p].user,
                                 checkOwner(ccall[p].author, ccall[p].user))
            /\ ccall' = [ccall EXCEPT ![p] = NoComment]
       ELSE /\ ccall' = [ccall EXCEPT ![p].pc = "update"]
            /\ UNCHANGED ret
    /\ UNCHANGED <<now, comments, cseq, authVars, throttleVars>>
    /\ UNCHANGED coreVars

\* CommentService.Update, last part: commentRepo.Update of the comment read
\* in the first part with the new content; a missing row is ErrDatabase.
CommentUpdateStore(p) ==
    /\ ccall[p].pc = "update"
    /\ IF ccall[p].id \in DOMAIN comments
       THEN /\ comments' = [comments EXCEPT ![ccall[p].id] =
                   [content |-> ccall[p].content, post |-> ccall[p].post,
                    author |-> ccall[p].author]]
            /\ ret' = CommentRet("CommentUpdate", ccall[p].id, ccall[p].user, "ok")
       ELSE /\ ret' = CommentRet("CommentUpdate", ccall[p].id, ccall[p].user,
                                 "ErrDatabase")
            /\ UNCHANGED comments
    /\ ccall' = [ccall EXCEPT ![p] = NoComment]
    /\ UNCHANGED <<now, cseq, authVars, throttleVars>>
    /\ UNCHANGED coreVars

\* CommentService.Delete, first part: commentRepo.GetByID, then checkOwner.
CommentDeleteGet(p, id, u) ==
    /\ ccall[p].pc = "idle"
    /\ IF id \notin DOMAIN comments
       THEN /\ ret' = CommentRet("CommentDelete", id, u, "ErrCommentNotFound")
            /\ UNCHANGED ccall
       ELSE IF checkOwner(comments[id].author, u) # "ok"
       THEN /\ ret' = CommentRet("CommentDelete", id, u,
                                 checkOwner(comments[id].author, u))
            /\ UNCHANGED ccall
       ELSE /\ ccall' = [ccall EXCEPT ![p] =
                   [NoComment EXCEPT !.pc = "delete", !.id = id, !.user = u]]
            /\ UNCHANGED ret
    /\ UNCHANGED <<now, comments, cseq, authVars, throttleVars>>
    /\ UNCHANGED coreVars

\* CommentService.Delete, second part: commentRepo.Delete; a missing row is
\* ErrDatabase.
CommentDeleteStore(p) ==
    /\ ccall[p].pc = "delete"
    /\ IF ccall[p].id \in DOMAIN comments
       THEN /\ comments' = [i \in DOMAIN comments \ {ccall[p].id} |-> comments[i]]
            /\ ret' = CommentRet("CommentDelete", ccall[p].id, ccall[p].user, "ok")
       ELSE /\ ret' = CommentRet("CommentDelete", ccall[p].id, ccall[p].user,
                                 "ErrDatabase")
            /\ UNCHANGED comments
    /\ ccall' = [ccall EXCEPT ![p] = NoComment]
    /\ UNCHANGED <<now, cseq, authVars, throttleVars>>
    /\ UNCHANGED coreVars

\* The Create calls that have passed their check and not stored yet.
InCreate == Cardinality({p \in Requests : ccall[p].pc = "create"})

\* Two users comment on the posts of user 1 while that user creates,
\* reschedules and deletes them and time passes.
CommentNext ==
    \/ AdvanceTime
    \/ /\ seq < MaxPosts
       /\ \E pa \in Times : Create(1, "t1", "c1", pa)
    \/ UpdateGet(1, 1, 1, NilStr, NilStr, MaxTime)
    \/ UpdateStore(1, TRUE)
    \/ DeleteGet(1, 1, 1)
    \/ DeleteStore(1, TRUE)
    \/ /\ cseq + InCreate < MaxComments
       /\ \E p \in Requests, u \in Callers, id \in 1..MaxPosts :
              CommentCreateCheck(p, u, id, "k1")
    \/ \E p \in Requests : CommentCreateStore(p)
    \/ \E p \in Requests, id \in 1..MaxPosts, dbOk \in BOOLEAN :
           CommentGetByPost(p, id, dbOk)
    \/ \E p \in Requests, dbOk \in BOOLEAN : CommentGetByPostList(p, dbOk)
    \/ \E p \in Requests, dbOk \in BOOLEAN : CommentGetByPostCount(p, dbOk)
    \/ \E p \in Requests, id \in CommentIds, u \in Callers :
           CommentUpdateGet(p, id, u, "k2")
    \/ \E p \in Requests : CommentUpdateEnsure(p)
    \/ \E p \in Requests : CommentUpdateStore(p)
    \/ \E p \in Requests, id \in CommentIds, u \in Callers :
           CommentDeleteGet(p, id, u)
    \/ \E p \in Requests : CommentDeleteStore(p)

CommentSpec == Init /\ [][CommentNext]_vars


\* C28: comments exist only on published posts: a Create for a post that
\* is missing or unpublished returns ErrPostNotFound and stores nothing,
\* every comment is stored while its post is published, and GetByPost and
\* Update answer ErrCommentNotFound while the comment's post is unpublished,
\* unless a read of GetByPost fails in the repository.
C28_CommentsOnPublishedOnly ==
    [][/\ \A p \in Requests :
             (ccall[p].pc = "idle" /\ ccall'[p].pc = "create") =>
                 GetPostFound(ccall'[p].post, PublishedFilter)
       /\ \A id \in CommentIds :
             (id \notin DOMAIN comments /\ id \in DOMAIN comments') =>
                 GetPostFound(comments'[id].post, PublishedFilter)
       /\ (ret' # ret /\ ret'.op = "GetByPost" /\ ret'.err # "ErrDatabase"
              /\ ~GetPostFound(ret'.id, PublishedFilter)) =>
                 ret'.err = "ErrCommentNotFound"
       /\ \A p \in Requests :
             (ccall[p].pc = "ensure" /\ ccall'[p].pc # "ensure"
                 /\ ~GetPostFound(ccall[p].post, PublishedFilter)) =>
                 /\ ret' = CommentRet("CommentUpdate", ccall[p].id,
                                      ccall[p].user, "ErrCommentNotFound")
                 /\ comments' = comments
      ]_vars


\* A Delete or Update call that returns from its first repository call.
ReturnsAtOnce(op) == ret' # ret /\ ret'.op = op /\ ccall' = ccall

\* What Update and Delete do apart from Update's answer to a non-author:
\* Delete by a user who is not the author returns ErrForbidden and changes
\* nothing, a call for an id that is not stored returns ErrCommentNotFound,
\* and the id of a deleted comment never comes back, so that a Delete after
\* a successful Delete finds the id missing.
OwnershipRest ==
    /\ (ReturnsAtOnce("CommentDelete") /\ ret'.id \in DOMAIN comments
           /\ comments[ret'.id].author # ret'.user) =>
              (ret'.err = "ErrForbidden" /\ comments' = comments)
    /\ ((ReturnsAtOnce("CommentDelete") \/ ReturnsAtOnce("CommentUpdate"))
           /\ ret'.id \notin DOMAIN comments) =>
              (ret'.err = "ErrCommentNotFound" /\ comments' = comments)
    /\ \A id \in CommentIds :
          (id <= cseq /\ id \notin DOMAIN comments) =>
              id \notin DOMAIN comments'

ThrottleLimit == 2
ThrottleWindow == 3

\* The calls per client id and second that the record keeps apart.
MaxCalls == 3

\* time.Now().Unix() grows by one: a second passes.
SecondPasses ==
    /\ now < MaxSeconds
    /\ now' = now + 1
    /\ UNCHANGED <<ret, authVars, commentVars, throttleVars>>
    /\ UNCHANGED coreVars

\* ZRemRangeByScore(key, "0", now - Window): the members that stay.
Kept(c) == {s \in zset[c] : s > now - ThrottleWindow}

\* ZCard after the removal, read before the ZAdd of the same pipeline.
Count(c) == Cardinality(Kept(c))

\* RedisThrottler.Allow: the pipeline removes the old members, counts, adds
\* the member "now" with score now (a second's calls share one member) and
\* sets the key's expiry; the call passes when count < Limit.  A failing
\* Exec returns false with its error.
Allow(c, redisOk) ==
    /\ granted[c][now] < MaxCalls
    /\ IF redisOk
       THEN /\ zset' = [zset EXCEPT ![c] = Kept(c) \cup {now}]
            /\ zexp' = [zexp EXCEPT ![c] = now + ThrottleWindow]
            /\ ret' = [op |-> "Allow", id |-> c, user |-> 0,
                       err |-> IF Count(c) < ThrottleLimit
                               THEN "allowed" ELSE "denied"]
            /\ granted' = IF Count(c) < ThrottleLimit
                          THEN [granted EXCEPT ![c][now] = @ + 1]
                          ELSE granted
       ELSE /\ ret' = [op |-> "Allow", id |-> c, user |-> 0, err |-> "error"]
            /\ UNCHANGED <<zset, zexp, granted>>
    /\ UNCHANGED <<now, authVars, commentVars>>
    /\ UNCHANGED coreVars

\* Redis drops a key whose expiry has passed.
KeyExpire(c) ==
    /\ zexp[c] # Nil
    /\ now >= zexp[c]
    /\ zset' = [zset EXCEPT ![c] = {}]
    /\ zexp' = [zexp EXCEPT ![c] = Nil]
    /\ UNCHANGED <<now, ret, granted, authVars, commentVars>>
    /\ UNCHANGED coreVars

\* Clients call the throttled endpoints while time passes.
ThrottleNext ==
    \/ SecondPasses
    \/ \E c \in Clients, redisOk \in BOOLEAN : Allow(c, redisOk)
    \/ \E c \in Clients : KeyExpire(c)

ThrottleSpec == Init /\ [][ThrottleNext]_vars

\* The calls of client c that Allow let pass in the window starting at t.
GrantedIn(c, t) ==
    LET secs == {s \in Seconds : s >= t /\ s < t + ThrottleWindow}
        f[S \in SUBSET secs] ==
            IF S = {} THEN 0
            ELSE LET s == CHOOSE x \in S : TRUE
                 IN granted[c][s] + f[S \ {s}]
    IN f[secs]

\* C30: rate limit bound: for every client id and every window of length
\* Window, Allow lets at most Limit calls pass, whatever the timing of the
\* calls, and a call for one client id changes nothing for another.
C30_RateLimitBound ==
    /\ [](\A c \in Clients, t \in Seconds : GrantedIn(c, t) <= ThrottleLimit)
    /\ [][\A c \in Clients :
             (zset'[c] # zset[c] \/ zexp'[c] # zexp[c]
                 \/ granted'[c] # granted[c]) =>
                 (ret'.op = "Allow" => ret'.id = c)
         ]_vars

=============================================================================
